---------------------------- MODULE Spec2Model ----------------------------
(***************************************************************************)
(* A model of the RAGJira scripts: the ticket-text normalizers             *)
(* (step5_rewrite_tickets.rewrite_text, step5_clean_descriptions.          *)
(* clean_text) and the context assembly of step4_generate_insights         *)
(* (retrieve, build_context, fallback_context, save_report,               *)
(* export_retrieved_rows), the entry points of the scripts, the chatbot's  *)
(* loop, the request handlers of web_app and the steps of run_pipeline.    *)
(*                                                                         *)
(* A Python str is a sequence of one-character strings.  Every regular     *)
(* expression of the source is an operator giving, for a start position,   *)
(* the position of the last character the expression matches there (0: no  *)
(* match), and re.sub / str.replace is the left-to-right non-overlapping   *)
(* scan ReSubFrom.                                                         *)
(***************************************************************************)
EXTENDS Integers, Sequences, FiniteSets, TLC

VARIABLES
    cell,           \* the table cell handed to a normalizer
    stage,          \* position of the normalizer scripts
    rewritten,      \* rewrite_text(cell)
    rewritten2,     \* rewrite_text(rewrite_text(cell))
    cleaned,        \* clean_text(cell)
    row_text,       \* build_context's _clean_text(text) of the cell's text
    args,           \* step4_generate_insights: the parsed command line
    ntotal,         \* index.ntotal of the index file
    reference_csv,  \* the reference file: its text columns and its rows
    df,             \* the table load_reference returns
    pc,             \* position of step4_generate_insights.main
    indices,        \* bundle.indices[0], the row ids the search returned
    context,        \* main's context
    valid_indices,  \* main's valid_indices
    snapshot,       \* the file at --export-tickets
    report,         \* the insight log at report_path
    lpc,            \* each process's position in save_report
    job,            \* each process's (query, answer) arguments
    calls,          \* the save_report calls made so far, in call order
    now,            \* the clock datetime.now() reads
    script,         \* the entry point that was started
    index_file,     \* the index file the script reads: absent, empty, vectors
    table_file,     \* the table the script reads: absent, no_rows, rows
    table_columns,  \* the columns of that table
    input_file,     \* whether run_pipeline's input CSV exists
    spc,            \* the script's position
    printed,        \* the messages written to the terminal (or the HTTP log)
    exit_status,    \* "running", or the status the process ended with
    uncaught,       \* the exception that ended the process, "" if none
    models_loaded,  \* whether an embedding or generative model was loaded
    chat,           \* the JiraChatbot object: index, reference_df, models, top_k
    turns,          \* the inputs read and requests served so far
    interrupted_at, \* the position at which the user pressed Ctrl-C, "" if never
    stdin,          \* the chatbot's standard input: open, or exhausted
    user_input,     \* chat's user_input, the stripped line last read
    globals,        \* web_app: the module globals the handlers share
    requests,       \* web_app: each server thread's request in progress
    responses,      \* web_app: the responses sent, in the order sent
    tickets,        \* what retrieve_similar_tickets returned
    steps,          \* run_pipeline: the list given with --steps, None if none
    steps_to_run,   \* run_full_pipeline: the selected steps not yet started
    ran             \* run_full_pipeline: the steps started, with their results

textVars == <<cell, stage, rewritten, rewritten2, cleaned, row_text>>
insightVars ==
    <<args, ntotal, reference_csv, df, pc, indices, context, valid_indices,
      snapshot>>
logVars == <<report, lpc, job, calls, now>>
scriptVars ==
    <<script, index_file, table_file, table_columns, input_file, spc, printed,
      exit_status, uncaught, models_loaded, chat, turns, interrupted_at,
      stdin, user_input>>
webVars == <<globals, requests, responses, tickets>>
pipelineVars == <<steps, steps_to_run, ran>>
nonTextVars == <<insightVars, logVars, scriptVars, webVars, pipelineVars>>
nonInsightVars == <<textVars, logVars, scriptVars, webVars, pipelineVars>>
nonLogVars == <<textVars, insightVars, scriptVars, webVars, pipelineVars>>
nonScriptVars == <<textVars, insightVars, logVars, webVars, pipelineVars>>
vars ==
    <<textVars, insightVars, logVars, scriptVars, webVars, pipelineVars>>

\* the processes that may call save_report on one report_path
Procs == {"p1", "p2"}

\* a JiraChatbot that was not constructed
NoChatbot == [index |-> "", reference_df |-> <<>>, models |-> FALSE, top_k |-> 0]

\* no entry point started
ScriptsOff ==
    /\ script = ""
    /\ index_file = "absent"
    /\ table_file = "absent"
    /\ table_columns = {}
    /\ input_file = FALSE
    /\ spc = "off"
    /\ printed = {}
    /\ exit_status = "running"
    /\ uncaught = ""
    /\ models_loaded = FALSE
    /\ chat = NoChatbot
    /\ turns = 0
    /\ interrupted_at = ""
    /\ stdin = "open"
    /\ user_input = <<>>

\* no insight log in use
LogOff ==
    /\ report = [exists |-> FALSE, rows |-> <<>>]
    /\ lpc = [p \in Procs |-> "off"]
    /\ job = [p \in Procs |-> <<>>]
    /\ calls = <<>>
    /\ now = 0

\* the server threads of the Flask development server (threaded by default)
Threads == {"t1", "t2"}

\* a value that is not a table: the table part of a global that holds none
NoTable == [columns |-> {}, rows |-> <<>>]

\* web_app after import: the five Optional globals are None, but the name
\* index was bound again by "def index()", the route function for "/"
ModuleGlobals ==
    [encoder |-> [kind |-> "None", ntotal |-> 0, table |-> NoTable],
     tokenizer |-> [kind |-> "None", ntotal |-> 0, table |-> NoTable],
     model |-> [kind |-> "None", ntotal |-> 0, table |-> NoTable],
     index |-> [kind |-> "function", ntotal |-> 0, table |-> NoTable],
     reference_df |-> [kind |-> "None", ntotal |-> 0, table |-> NoTable],
     original_df |-> [kind |-> "None", ntotal |-> 0, table |-> NoTable]]

\* a server thread that handles no request
Idle == [route |-> "", at |-> "idle", query |-> "", top_k |-> 0]

\* no web application started
WebOff ==
    /\ globals = ModuleGlobals
    /\ requests = [t \in Threads |-> Idle]
    /\ responses = <<>>
    /\ tickets = <<>>

\* no pipeline started
PipelineOff ==
    /\ steps = <<>>
    /\ steps_to_run = <<>>
    /\ ran = <<>>

---------------------------------------------------------------------------
(* Characters and character classes of Python's re module (str patterns).  *)

NL == "\n"

Upper == <<"A","B","C","D","E","F","G","H","I","J","K","L","M",
           "N","O","P","Q","R","S","T","U","V","W","X","Y","Z">>
Lower == <<"a","b","c","d","e","f","g","h","i","j","k","l","m",
           "n","o","p","q","r","s","t","u","v","w","x","y","z">>

UpperSet == {Upper[k] : k \in 1..26}
LowerSet == {Lower[k] : k \in 1..26}
Digits == {"0","1","2","3","4","5","6","7","8","9"}

\* [A-Za-z]
IsAlpha(c) == c \in UpperSet \cup LowerSet
\* \s
Whitespace == {" ", NL, "\t"}
IsSpace(c) == c \in Whitespace
\* \w
IsWord(c) == IsAlpha(c) \/ c \in Digits \/ c = "_"

\* str.lower() of one character, as re.IGNORECASE compares
LowerChar(c) ==
    IF c \in UpperSet THEN Lower[CHOOSE k \in 1..26 : Upper[k] = c] ELSE c

Min(S) == CHOOSE x \in S : \A y \in S : x <= y

\* the first position >= i whose character is in C, Len(s)+1 when there is none
RECURSIVE FirstIn(_, _, _)
FirstIn(s, i, C) ==
    IF i > Len(s) THEN Len(s) + 1
    ELSE IF s[i] \in C THEN i
    ELSE FirstIn(s, i + 1, C)

\* the first position >= i whose character is not in C, Len(s)+1 when none
RECURSIVE FirstNotIn(_, _, _)
FirstNotIn(s, i, C) ==
    IF i > Len(s) THEN Len(s) + 1
    ELSE IF s[i] \notin C THEN i
    ELSE FirstNotIn(s, i + 1, C)

\* the last position <= i whose character is not in C, 0 when there is none
RECURSIVE LastNotIn(_, _, _)
LastNotIn(s, i, C) ==
    IF i < 1 THEN 0
    ELSE IF s[i] \notin C THEN i
    ELSE LastNotIn(s, i - 1, C)

\* the literal lit stands at position i of s
LitAt(s, i, lit) ==
    /\ i >= 1
    /\ i + Len(lit) - 1 <= Len(s)
    /\ \A k \in 1..Len(lit) : s[i + k - 1] = lit[k]

\* the literal lit stands at position i of s, ignoring case
LitAtCI(s, i, lit) ==
    /\ i >= 1
    /\ i + Len(lit) - 1 <= Len(s)
    /\ \A k \in 1..Len(lit) : LowerChar(s[i + k - 1]) = LowerChar(lit[k])

\* \b between positions p-1 and p (p in 1..Len(s)+1)
WordBoundary(s, p) ==
    LET before == p - 1 >= 1 /\ p - 1 <= Len(s) /\ IsWord(s[p - 1])
        after  == p >= 1 /\ p <= Len(s) /\ IsWord(s[p])
    IN  before # after

\* str.strip()
Strip(s) ==
    SubSeq(s, FirstNotIn(s, 1, Whitespace), LastNotIn(s, Len(s), Whitespace))

---------------------------------------------------------------------------
(* The regular expressions of step5_rewrite_tickets.rewrite_text.  Each    *)
(* operator gives the last position of the match that starts at i, or 0.   *)

\* r"\[(?P<label>[^\]]+)\]\([^\)]+\)": the position of the label's "]"
LinkLabelEnd(s, i) ==
    IF i > Len(s) \/ s[i] # "[" THEN 0
    ELSE LET j == FirstIn(s, i + 1, {"]"})
         IN  IF j <= Len(s) /\ j >= i + 2 /\ j + 1 <= Len(s) /\ s[j + 1] = "("
             THEN j ELSE 0

LinkEnd(s, i) ==
    LET j == LinkLabelEnd(s, i)
    IN  IF j = 0 THEN 0
        ELSE LET k == FirstIn(s, j + 2, {")"})
             IN  IF k <= Len(s) /\ k >= j + 3 THEN k ELSE 0

\* r"<[^>]+>"
TagEnd(s, i) ==
    IF i > Len(s) \/ s[i] # "<" THEN 0
    ELSE LET j == FirstIn(s, i + 1, {">"})
         IN  IF j <= Len(s) /\ j >= i + 2 THEN j ELSE 0

\* r"[*(bullet)#_\-]+"
\* "bullet" is one atom standing for U+2022
MarkdownChars == {"*", "bullet", "#", "_", "-"}

MarkdownEnd(s, i) ==
    IF i > Len(s) \/ s[i] \notin MarkdownChars THEN 0
    ELSE FirstNotIn(s, i, MarkdownChars) - 1

\* the headings of the replacements dict, in the dict's (insertion) order
L_Issue == <<"I","s","s","u","e",":">>
L_ProposedResolution ==
    <<"P","r","o","p","o","s","e","d"," ","R","e","s","o","l","u","t","i","o","n",":">>
L_Summary == <<"S","u","m","m","a","r","y",":">>
R_TheIssueIs == <<"T","h","e"," ","i","s","s","u","e"," ","i","s">>
R_TheProposedResolutionIs ==
    <<"T","h","e"," ","p","r","o","p","o","s","e","d"," ",
      "r","e","s","o","l","u","t","i","o","n"," ","i","s">>
R_CurrentStatus == <<"C","u","r","r","e","n","t"," ","s","t","a","t","u","s",":">>

replacements ==
    << <<L_Issue, R_TheIssueIs>>,
       << <<"P","r","o","b","l","e","m",":">>,
          <<"T","h","e"," ","p","r","o","b","l","e","m"," ","i","s">> >>,
       <<L_ProposedResolution, R_TheProposedResolutionIs>>,
       << <<"R","e","s","o","l","u","t","i","o","n",":">>,
          <<"T","h","e"," ","r","e","s","o","l","u","t","i","o","n"," ","i","s">> >>,
       << <<"S","t","a","t","u","s",":">>, R_CurrentStatus>>,
       <<L_Summary, L_Summary>> >>

\* r"\b(hello|hi|dear team|good (morning|afternoon)|thanks|thank you)\b[^.]*"
G_hello == <<"h","e","l","l","o">>
G_thank_you == <<"t","h","a","n","k"," ","y","o","u">>

Greetings ==
    <<G_hello,
      <<"h","i">>,
      <<"d","e","a","r"," ","t","e","a","m">>,
      <<"g","o","o","d"," ","m","o","r","n","i","n","g">>,
      <<"g","o","o","d"," ","a","f","t","e","r","n","o","o","n">>,
      <<"t","h","a","n","k","s">>,
      G_thank_you>>

\* the alternatives that match at i with a word boundary on both sides
GreetingAlternatives(s, i) ==
    {a \in 1..Len(Greetings) :
        /\ WordBoundary(s, i)
        /\ LitAtCI(s, i, Greetings[a])
        /\ WordBoundary(s, i + Len(Greetings[a]))}

GreetingEnd(s, i) ==
    LET alts == GreetingAlternatives(s, i)
    IN  IF alts = {} THEN 0
        ELSE FirstIn(s, i + Len(Greetings[Min(alts)]), {"."}) - 1

\* r"(please provide|let me know if|do not hesitate|kind regards)[^.]*"
Boilerplate ==
    << <<"p","l","e","a","s","e"," ","p","r","o","v","i","d","e">>,
       <<"l","e","t"," ","m","e"," ","k","n","o","w"," ","i","f">>,
       <<"d","o"," ","n","o","t"," ","h","e","s","i","t","a","t","e">>,
       <<"k","i","n","d"," ","r","e","g","a","r","d","s">> >>

BoilerplateEnd(s, i) ==
    LET alts == {a \in 1..Len(Boilerplate) : LitAtCI(s, i, Boilerplate[a])}
    IN  IF alts = {} THEN 0
        ELSE FirstIn(s, i + Len(Boilerplate[Min(alts)]), {"."}) - 1

\* r"\s{2,}"
SpaceRunEnd(s, i) ==
    IF i + 1 > Len(s) \/ ~IsSpace(s[i]) \/ ~IsSpace(s[i + 1]) THEN 0
    ELSE FirstNotIn(s, i, Whitespace) - 1

---------------------------------------------------------------------------
(* re.sub and str.replace: scan from the left; where the pattern matches,  *)
(* emit the replacement and continue after the match; elsewhere copy one   *)
(* character.  No pattern of the source matches the empty string.          *)

MatchEnd(pat, s, i) ==
    CASE pat = "link" -> LinkEnd(s, i)
      [] pat = "tag" -> TagEnd(s, i)
      [] pat = "markdown" -> MarkdownEnd(s, i)
      [] pat = "greeting" -> GreetingEnd(s, i)
      [] pat = "boilerplate" -> BoilerplateEnd(s, i)
      [] pat = "spaces" -> SpaceRunEnd(s, i)

Replacement(pat, s, i) ==
    CASE pat = "link" -> SubSeq(s, i + 1, LinkLabelEnd(s, i) - 1)
      [] pat \in {"tag", "markdown", "spaces"} -> <<" ">>
      [] pat \in {"greeting", "boilerplate"} -> <<>>

RECURSIVE ReSubFrom(_, _, _)
ReSubFrom(pat, s, i) ==
    IF i > Len(s) THEN <<>>
    ELSE LET e == MatchEnd(pat, s, i)
         IN  IF e = 0 THEN <<s[i]>> \o ReSubFrom(pat, s, i + 1)
             ELSE Replacement(pat, s, i) \o ReSubFrom(pat, s, e + 1)

ReSub(pat, s) == ReSubFrom(pat, s, 1)

RECURSIVE StrReplaceFrom(_, _, _, _)
StrReplaceFrom(s, i, needle, repl) ==
    IF i > Len(s) THEN <<>>
    ELSE IF LitAt(s, i, needle)
         THEN repl \o StrReplaceFrom(s, i + Len(needle), needle, repl)
         ELSE <<s[i]>> \o StrReplaceFrom(s, i + 1, needle, repl)

StrReplace(s, needle, repl) == StrReplaceFrom(s, 1, needle, repl)

---------------------------------------------------------------------------
(* Table cells: pandas gives NaN for an empty cell, a str otherwise;       *)
(* a caller may also pass None.                                            *)

None == [kind |-> "None", str |-> <<>>]
NaN == [kind |-> "NaN", str |-> <<>>]
Str(s) == [kind |-> "str", str |-> s]

\* str(text)
PyStr(text) == IF text.kind = "NaN" THEN <<"n","a","n">> ELSE text.str

\* for needle, replacement in replacements.items(): value.replace(...)
RECURSIVE ReplaceHeadings(_, _)
ReplaceHeadings(value, n) ==
    IF n > Len(replacements) THEN value
    ELSE ReplaceHeadings(
             StrReplace(value, replacements[n][1], replacements[n][2]), n + 1)

\* value.replace("\n", " ")
ReplaceNewlines(value) ==
    [j \in 1..Len(value) |-> IF value[j] = NL THEN " " ELSE value[j]]

\* rewrite_text up to and including the heading replacements
RewriteHeadings(text) ==
    LET value == IF text.kind = "None" THEN <<>> ELSE PyStr(text)
    IN  ReplaceHeadings(
            ReSub("markdown", ReSub("tag", ReSub("link", ReplaceNewlines(value)))),
            1)

\* the two greeting and boilerplate removals
RemoveGreetings(value) == ReSub("boilerplate", ReSub("greeting", value))

rewrite_text(text) ==
    Strip(ReSub("spaces", RemoveGreetings(RewriteHeadings(text))))

---------------------------------------------------------------------------
(* step5_clean_descriptions.clean_text.                                    *)

\* r"\bWord:?" with re.I
LabelEnd(s, i, word) ==
    IF ~(WordBoundary(s, i) /\ LitAtCI(s, i, word)) THEN 0
    ELSE LET e == i + Len(word) - 1
         IN  IF e + 1 <= Len(s) /\ s[e + 1] = ":" THEN e + 1 ELSE e

RECURSIVE LabelSubFrom(_, _, _, _)
LabelSubFrom(s, i, word, repl) ==
    IF i > Len(s) THEN <<>>
    ELSE LET e == LabelEnd(s, i, word)
         IN  IF e = 0 THEN <<s[i]>> \o LabelSubFrom(s, i + 1, word, repl)
             ELSE repl \o LabelSubFrom(s, e + 1, word, repl)

LabelSub(s, word, repl) == LabelSubFrom(s, 1, word, repl)

\* "." of a pattern without re.S: any character but the newline
NoNewline(s, a, b) == \A j \in a..b : s[j] # NL

\* r"\[.*?\]\(.*?\)": lazily, the first "](" that a ")" follows on the line
BracketLinkEnd(s, i) ==
    IF i > Len(s) \/ s[i] # "[" THEN 0
    ELSE LET closes(j) == {k \in (j + 2)..Len(s) :
                              s[k] = ")" /\ NoNewline(s, j + 2, k - 1)}
             mids == {j \in (i + 1)..(Len(s) - 1) :
                         /\ s[j] = "]" /\ s[j + 1] = "("
                         /\ NoNewline(s, i + 1, j - 1)
                         /\ closes(j) # {}}
         IN  IF mids = {} THEN 0 ELSE Min(closes(Min(mids)))

\* r"http\S+|www\S+|\[.*?\]\(.*?\)"
UrlEnd(s, i) ==
    LET nonSpaceRun(j) == FirstIn(s, j, Whitespace) - 1
    IN  IF LitAt(s, i, <<"h","t","t","p">>) /\ nonSpaceRun(i + 4) >= i + 4
        THEN nonSpaceRun(i + 4)
        ELSE IF LitAt(s, i, <<"w","w","w">>) /\ nonSpaceRun(i + 3) >= i + 3
        THEN nonSpaceRun(i + 3)
        ELSE BracketLinkEnd(s, i)

M_mailto == <<"|","m","a","i","l","t","o",":">>

\* r"\[.*?\|mailto:[^\]]*\]"
MailtoEnd(s, i) ==
    IF i > Len(s) \/ s[i] # "[" THEN 0
    ELSE LET mids == {j \in (i + 1)..Len(s) :
                         /\ LitAt(s, j, M_mailto)
                         /\ NoNewline(s, i + 1, j - 1)
                         /\ FirstIn(s, j + Len(M_mailto), {"]"}) <= Len(s)}
         IN  IF mids = {} THEN 0
             ELSE FirstIn(s, Min(mids) + Len(M_mailto), {"]"})

\* r"Thank you.*" with re.I
ThankYouEnd(s, i) ==
    IF LitAtCI(s, i, G_thank_you)
    THEN FirstIn(s, i + Len(G_thank_you), {NL}) - 1
    ELSE 0

\* r"Hello.*?!" with re.I
HelloEnd(s, i) ==
    IF ~LitAtCI(s, i, G_hello) THEN 0
    ELSE LET k == FirstIn(s, i + Len(G_hello), {"!"})
         IN  IF k <= Len(s) /\ NoNewline(s, i + Len(G_hello), k - 1)
             THEN k ELSE 0

CleanMatchEnd(pat, s, i) ==
    CASE pat = "url" -> UrlEnd(s, i)
      [] pat = "mailto" -> MailtoEnd(s, i)
      [] pat = "thankyou" -> ThankYouEnd(s, i)
      [] pat = "hello" -> HelloEnd(s, i)

\* re.sub(pattern, "", text)
RECURSIVE DeleteFrom(_, _, _)
DeleteFrom(pat, s, i) ==
    IF i > Len(s) THEN <<>>
    ELSE LET e == CleanMatchEnd(pat, s, i)
         IN  IF e = 0 THEN <<s[i]>> \o DeleteFrom(pat, s, i + 1)
             ELSE DeleteFrom(pat, s, e + 1)

Delete(pat, s) == DeleteFrom(pat, s, 1)

\* the four label substitutions, in the order of the source
CleanLabels(text) ==
    LabelSub(
        LabelSub(
            LabelSub(
                LabelSub(text, <<"I","s","s","u","e">>, R_TheIssueIs),
                <<"R","e","s","o","l","u","t","i","o","n">>,
                <<"T","h","e"," ","r","e","s","o","l","u","t","i","o","n"," ",
                  "w","a","s">>),
            <<"P","r","o","p","o","s","e","d"," ",
              "R","e","s","o","l","u","t","i","o","n">>,
            R_TheProposedResolutionIs),
        <<"S","t","a","t","u","s">>, R_CurrentStatus)

clean_text(text) ==
    IF text.kind \in {"None", "NaN"} THEN <<>>
    ELSE Strip(ReSub("spaces",
             Delete("hello", Delete("thankyou", Delete("mailto", Delete("url",
                 CleanLabels(ReSub("spaces", ReSub("markdown", PyStr(text))))))))))

---------------------------------------------------------------------------
(* step4_generate_insights: the per-row cleaning of build_context.         *)

\* def _clean_text(text)
_clean_text(text) == Strip(ReSub("spaces", ReSub("markdown", text)))

\* pd.notna(row[col]) and str(row[col]).strip()
Usable(value) == value.kind = "str" /\ Strip(PyStr(value)) # <<>>

---------------------------------------------------------------------------
(* The normalizer scripts applied to one table cell.                       *)

\* the longest input, in fragments
MaxFrags == 2

Fragments == <<
    <<"I","s","s","u","e",":">>,
    <<"i","s","s","u","e",":">>,
    <<"I","S","S","U","E",":">>,
    <<" ","c","a","m","e","r","a"," ","d","o","w","n">>,
    <<"P","r","o","p","o","s","e","d"," ","R","e","s","o","l","u","t","i","o","n",":">>,
    <<" ","r","e","p","l","a","c","e"," ","u","n","i","t">>,
    <<"S","t","a","t","u","s",":">>,
    <<"[","[","a","]","(","b",")","]","(","c",")">>,
    <<"<","<","b",">","i",">">>,
    <<"H","e","l","l","o"," ","t","e","a","m","!">>,
    <<" ","T","h","e"," ","c","a","m","e","r","a"," ","i","s"," ","d","o","w","n",
      "."," ","R","e","b","o","o","t","e","d",".">>,
    <<"h","i">>,
    <<"p","l","e","a","s","e"," ","p","r","o","v","i","d","e">>,
    <<"T","h","a","n","k"," ","y","o","u">>,
    <<".">>,
    <<" ">>,
    <<NL>>,
    <<"*","*">>,
    <<"h","t","t","p",":","/","/","x">>,
    <<"[","m","|","m","a","i","l","t","o",":","x","]">>
>>

RECURSIVE Concat(_)
Concat(fs) ==
    IF fs = <<>> THEN <<>> ELSE Fragments[Head(fs)] \o Concat(Tail(fs))

InputStrings ==
    {Concat(fs) : fs \in UNION {[1..n -> 1..Len(Fragments)] : n \in 0..MaxFrags}}

Cells == {None, NaN} \cup {Str(s) : s \in InputStrings}

TextInit ==
    /\ cell \in Cells
    /\ stage = "loaded"
    /\ rewritten = <<>>
    /\ rewritten2 = <<>>
    /\ cleaned = <<>>
    /\ row_text = <<>>
    /\ args = [top_k |-> 0, min_context_chars |-> 0, min_context_length |-> 0]
    /\ ntotal = 0
    /\ reference_csv = [columns |-> {}, rows |-> <<>>]
    /\ df = [columns |-> {}, rows |-> <<>>]
    /\ pc = "off"
    /\ indices = <<>>
    /\ context = <<>>
    /\ valid_indices = <<>>
    /\ snapshot = [exists |-> FALSE, rows |-> <<>>]
    /\ LogOff
    /\ ScriptsOff
    /\ WebOff
    /\ PipelineOff

\* step5_rewrite_tickets: df[source_column].apply(rewrite_text)
Rewrite ==
    /\ stage = "loaded"
    /\ rewritten' = rewrite_text(cell)
    /\ stage' = "rewritten"
    /\ UNCHANGED <<cell, rewritten2, cleaned, row_text, nonTextVars>>

\* the rewritten text handed to rewrite_text once more
RewriteAgain ==
    /\ stage = "rewritten"
    /\ rewritten2' = rewrite_text(Str(rewritten))
    /\ stage' = "rewritten_twice"
    /\ UNCHANGED <<cell, rewritten, cleaned, row_text, nonTextVars>>

\* step5_clean_descriptions: df["Combined_Text"].apply(clean_text)
Clean ==
    /\ stage = "loaded"
    /\ cleaned' = clean_text(cell)
    /\ stage' = "cleaned"
    /\ UNCHANGED <<cell, rewritten, rewritten2, row_text, nonTextVars>>

\* build_context: text = _clean_text(text), for a cell the text selection
\* accepts (not null, not blank), here the cell rewrite_text was given
CleanRowText ==
    /\ stage = "rewritten"
    /\ Usable(cell)
    /\ row_text' = _clean_text(PyStr(cell))
    /\ stage' = "row_cleaned"
    /\ UNCHANGED <<cell, rewritten, rewritten2, cleaned, nonTextVars>>

TextNext == Rewrite \/ RewriteAgain \/ Clean \/ CleanRowText

SpecText == TextInit /\ [][TextNext]_vars

---------------------------------------------------------------------------
(* Properties of the normalizers.                                          *)

StartsWith(s, prefix) == LitAt(s, 1, prefix)
StartsWithCI(s, prefix) == LitAtCI(s, 1, prefix)
Contains(s, part) == \E i \in 1..Len(s) : LitAt(s, i, part)
EndsWith(s, suffix) ==
    Len(suffix) <= Len(s) /\ LitAt(s, Len(s) - Len(suffix) + 1, suffix)

\* C1: rewrite_text is idempotent: rewriting a rewritten text changes nothing.
C1_RewriteIdempotent ==
    stage = "rewritten_twice" => rewritten2 = rewritten

MixedResolution ==
    <<"P","r","o","p","o","s","e","d"," ","T","h","e"," ",
      "r","e","s","o","l","u","t","i","o","n">>

LongestLabelFirst(out) ==
    /\ StartsWith(cell.str, L_ProposedResolution)
           => StartsWith(out, R_TheProposedResolutionIs)
    /\ Contains(cell.str, L_ProposedResolution)
           => ~Contains(out, MixedResolution)

\* C2: in both normalizers "Proposed Resolution:" is rewritten as the longer
\* label: a text that begins with it is rewritten to begin with "The proposed
\* resolution is", and no text containing it yields the mixed "Proposed The
\* resolution".
C2_LongestLabelFirst ==
    /\ stage = "rewritten" => LongestLabelFirst(rewritten)
    /\ stage = "cleaned" => LongestLabelFirst(cleaned)

\* C3: rewrite_text replaces a heading in any casing: a text that begins with
\* "Issue:", "issue:" or "ISSUE:" is rewritten to begin with "The issue is".
C3_LabelCaseInsensitive ==
    (stage = "rewritten" /\ StartsWithCI(cell.str, L_Issue))
        => StartsWith(rewritten, R_TheIssueIs)

\* C4: rewrite_text maps every missing input, None and NaN, to the empty string.
C4_MissingIsEmpty ==
    (stage = "rewritten" /\ cell.kind \in {"None", "NaN"}) => rewritten = <<>>

SentenceTerminators == {"!", "?", "."}

\* the starts of the greeting matches in value
GreetingStarts(value) ==
    {i \in 1..Len(value) : GreetingAlternatives(value, i) # {}}

\* what follows the first sentence terminator after the first greeting
AfterGreetingSentence(value) ==
    LET i == Min(GreetingStarts(value))
        a == Min(GreetingAlternatives(value, i))
        t == FirstIn(value, i + Len(Greetings[a]), SentenceTerminators)
    IN  SubSeq(value, t + 1, Len(value))

\* C5: the greeting removal deletes the greeting up to the next sentence
\* terminator ("!", "?" or "."): what follows that terminator, when it holds no
\* greeting or boilerplate of its own, is kept (whitespace-normalised) at the
\* end of the rewritten text.
C5_GreetingStopsAtTerminator ==
    LET value == RewriteHeadings(cell)
        rest == AfterGreetingSentence(value)
    IN  (/\ stage = "rewritten"
         /\ GreetingStarts(value) # {}
         /\ RemoveGreetings(rest) = rest)
            => EndsWith(rewritten, Strip(ReSub("spaces", rest)))

\* C11: build_context applies the Text Normalizer to each selected text: for
\* every text the selection accepts, _clean_text gives the same string as
\* rewrite_text (links, tags, labels and greetings handled alike).
C11_RowCleaningIsNormalizer ==
    stage = "row_cleaned" => row_text = rewritten

---------------------------------------------------------------------------
(* step4_generate_insights: context assembly.                              *)

\* len(re.findall(r"[A-Za-z]", text))
AlphaCount(text) == Cardinality({j \in 1..Len(text) : IsAlpha(text[j])})

\* re.fullmatch(r"[\d\W_]+", text)
DigitsOrPunctuationOnly(text) ==
    /\ Len(text) >= 1
    /\ \A j \in 1..Len(text) :
           text[j] \in Digits \/ ~IsWord(text[j]) \/ text[j] = "_"

\* the priority order of main's available_columns
ColumnPriority == <<"Rewritten_Text", "Cleaned_Text", "text">>

\* available_columns = [col for col in (...) if col in df.columns]
AvailableColumns(table) ==
    SelectSeq(ColumnPriority, LAMBDA col : col \in table.columns)

\* the text selection taking the last usable field
SelectText_last_field(table, row, available_columns) ==
    LET usable == {n \in 1..Len(available_columns) :
                      /\ available_columns[n] \in table.columns
                      /\ Usable(row[available_columns[n]])}
    IN  IF usable = {} THEN <<>>
        ELSE PyStr(row[available_columns[
                 CHOOSE n \in usable : \A m \in usable : m <= n]])

\* next((str(row[col]) for col in available_columns if ...), "")
SelectText(table, row, available_columns) ==
    LET usable == {n \in 1..Len(available_columns) :
                      /\ available_columns[n] \in table.columns
                      /\ Usable(row[available_columns[n]])}
    IN  IF usable = {} THEN <<>>
        ELSE PyStr(row[available_columns[Min(usable)]])

\* df.iloc[idx]: 0-based, a negative idx counts from the end
Iloc(table, idx) ==
    IF idx >= 0 THEN table.rows[idx + 1]
    ELSE table.rows[Len(table.rows) + idx + 1]

\* the cleaned text of table row idx
RowText(table, idx, available_columns) ==
    _clean_text(SelectText(table, Iloc(table, idx), available_columns))

\* the rejections without the count of letters
Accepted_without_letter_count(text, min_alpha_chars) ==
    /\ text # <<>>
    /\ ~DigitsOrPunctuationOnly(text)

\* the three rejections of build_context's loop body
Accepted(text, min_alpha_chars) ==
    /\ text # <<>>
    /\ ~DigitsOrPunctuationOnly(text)
    /\ ~(AlphaCount(text) < min_alpha_chars)

\* whether build_context's loop appends row idx
Contributes(table, idx, min_alpha_chars, available_columns) ==
    /\ ~(idx = -1 \/ idx >= Len(table.rows))
    /\ Accepted(RowText(table, idx, available_columns), min_alpha_chars)

\* " ".join(context_parts)
RECURSIVE JoinWithSpace(_)
JoinWithSpace(parts) ==
    IF parts = <<>> THEN <<>>
    ELSE IF Len(parts) = 1 THEN parts[1]
    ELSE parts[1] \o <<" ">> \o JoinWithSpace(Tail(parts))

\* build_context recording an index before the row is filtered
build_context_index_before_filter(table, bundle, min_alpha_chars, available_columns) ==
    LET valid == SelectSeq(bundle,
                     LAMBDA idx : Contributes(table, idx, min_alpha_chars,
                                              available_columns))
        context_parts == [n \in 1..Len(valid) |->
                             RowText(table, valid[n], available_columns)]
    IN  <<JoinWithSpace(context_parts),
          SelectSeq(bundle, LAMBDA idx : ~(idx = -1 \/ idx >= Len(table.rows)))>>

\* def build_context(df, bundle, min_alpha_chars, available_columns):
\* the pair (context, valid_indices)
build_context(table, bundle, min_alpha_chars, available_columns) ==
    LET valid == SelectSeq(bundle,
                     LAMBDA idx : Contributes(table, idx, min_alpha_chars,
                                              available_columns))
        context_parts == [n \in 1..Len(valid) |->
                             RowText(table, valid[n], available_columns)]
    IN  <<JoinWithSpace(context_parts), valid>>

FallbackSentence ==
    <<"I","n","c","i","d","e","n","t"," ","d","e","s","c","r","i","p","t",
      "i","o","n","s"," ","a","r","e"," ","b","r","i","e","f"," ","o","r",
      " ","c","o","n","t","a","i","n"," ","l","i","m","i","t","e","d"," ",
      "t","e","x","t","."," ","A","s","s","u","m","e"," ","t","h","e","s",
      "e"," ","i","n","v","o","l","v","e"," ","h","a","r","d","w","a","r",
      "e"," ","f","a","u","l","t","s",","," ","n","e","t","w","o","r","k",
      " ","i","s","s","u","e","s",","," ","o","r"," ","v","e","n","d","o",
      "r"," ","d","e","l","a","y","s"," ","c","a","u","s","i","n","g"," ",
      "c","a","m","e","r","a"," ","o","u","t","a","g","e","s"," ","i","n",
      " ","r","e","t","a","i","l"," ","s","t","o","r","e","s",".">>

\* fallback_context with the comparison made strict
fallback_context_strict(ctx, min_length) ==
    IF Len(Strip(ctx)) > min_length THEN ctx ELSE FallbackSentence

\* def fallback_context(context, min_length)
fallback_context(ctx, min_length) ==
    IF Len(Strip(ctx)) >= min_length THEN ctx ELSE FallbackSentence

---------------------------------------------------------------------------
(* step4_generate_insights.main, from the parsed arguments to the context  *)
(* handed to build_prompt.                                                 *)

\* the most rows of the reference table
MaxRows == 2
\* the most vectors of the index
MaxVectors == 2
\* the largest --top-k
MaxTopK == 2

\* parse_args: the defaults of --min-context-chars and --min-context-length
DefaultMinContextChars == 10
DefaultMinContextLength == 100

T_camera ==
    <<"C","a","m","e","r","a"," ","f","a","i","l","u","r","e"," ","a","t",
      " ","s","t","o","r","e"," ","1","2"," ","d","u","e"," ","t","o"," ",
      "p","o","w","e","r"," ","l","o","s","s">>
T_na == <<"N","/","A">>
T_blank == <<" "," ">>

\* the rows of a file that holds the column Cleaned_Text alone, and those
\* of a file holding all three text columns
CsvRowsOf(columns) ==
    IF columns = {"Cleaned_Text"}
    THEN [columns -> {<<>>, <<"1","2","3","4","5">>, T_na, T_camera}]
    ELSE {[Rewritten_Text |-> <<>>, Cleaned_Text |-> T_blank, text |-> T_camera],
          [Rewritten_Text |->
               <<"*","*","c","a","m"," ","1","2"," ","u","p","*","*">>,
           Cleaned_Text |-> T_camera, text |-> <<>>],
          [Rewritten_Text |-> T_blank, Cleaned_Text |-> <<>>, text |-> <<>>]}

\* the reference file: that of step3_build_index (Cleaned_Text alone), or
\* one holding all three text columns
CsvFiles ==
    UNION {{[columns |-> cs, rows |-> rs] :
               rs \in UNION {[1..n -> CsvRowsOf(cs)] : n \in 0..MaxRows}} :
           cs \in {{"Cleaned_Text"}, {"Rewritten_Text", "Cleaned_Text", "text"}}}

\* pd.read_csv: the cell texts read as missing (pandas' default na_values)
NaStrings ==
    {<<>>, <<"N","/","A">>, <<"N","A">>, <<"n","/","a">>, <<"n","a","n">>,
     <<"N","a","N">>, <<"n","u","l","l">>, <<"N","U","L","L">>,
     <<"N","o","n","e">>, <<"#","N","/","A">>, <<"#","N","A">>,
     <<"<","N","A",">">>}

\* a cell text pd.read_csv parses as an integer
IsIntegerText(s) == s # <<>> /\ \A j \in 1..Len(s) : s[j] \in Digits

\* pd.read_csv infers a numeric dtype for a column whose cells are all
\* numbers or missing: int64 without a missing cell, float64 with one
NumericColumn(file, col) ==
    /\ \A n \in 1..Len(file.rows) :
           file.rows[n][col] \in NaStrings \/ IsIntegerText(file.rows[n][col])
    /\ \E n \in 1..Len(file.rows) : IsIntegerText(file.rows[n][col])

HasMissing(file, col) ==
    \E n \in 1..Len(file.rows) : file.rows[n][col] \in NaStrings

\* the table value of one cell: NaN, or the value whose str() is given
ReadCell(file, col, s) ==
    IF s \in NaStrings THEN NaN
    ELSE IF NumericColumn(file, col) /\ HasMissing(file, col)
    THEN Str(s \o <<".", "0">>)
    ELSE Str(s)

\* df = pd.read_csv(reference_path)
read_csv(file) ==
    [columns |-> file.columns,
     rows |-> [n \in 1..Len(file.rows) |->
                  [col \in file.columns |->
                      ReadCell(file, col, file.rows[n][col])]]]

Arguments ==
    [top_k : 0..MaxTopK,
     min_context_chars : {0, 1, DefaultMinContextChars},
     min_context_length : {-1, 0, Len(T_camera), DefaultMinContextLength}]

\* index.search(query_vector, k): k ids, nearest first: distinct stored ids,
\* then -1 where the index found no further neighbour
SearchResults(n, k) ==
    {ids \in [1..k -> -1..(n - 1)] :
        /\ \A a, b \in 1..k : (a < b /\ ids[a] # -1) => ids[a] # ids[b]
        /\ \A a, b \in 1..k : (a < b /\ ids[a] = -1) => ids[b] = -1}

InsightInit ==
    /\ args \in Arguments
    /\ ntotal \in 0..MaxVectors
    /\ reference_csv \in CsvFiles
    /\ df = [columns |-> {}, rows |-> <<>>]
    /\ pc = "start"
    /\ indices = <<>>
    /\ context = <<>>
    /\ valid_indices = <<>>
    /\ snapshot = [exists |-> FALSE, rows |-> <<>>]
    /\ cell = None
    /\ stage = "off"
    /\ rewritten = <<>>
    /\ rewritten2 = <<>>
    /\ cleaned = <<>>
    /\ row_text = <<>>
    /\ LogOff
    /\ ScriptsOff
    /\ WebOff
    /\ PipelineOff

\* main: the range checks of --top-k and --min-context-chars
Validate ==
    /\ pc = "start"
    /\ pc' = IF args.top_k <= 0 \/ args.min_context_chars < 1
             THEN "ValueError" ELSE "validated"
    /\ UNCHANGED <<args, ntotal, reference_csv, df, indices, context, valid_indices, snapshot, nonInsightVars>>

\* main: load_index and load_reference
Load ==
    /\ pc = "validated"
    /\ IF ntotal = 0
       THEN pc' = "ValueError" /\ df' = df
       ELSE /\ df' = read_csv(reference_csv)
            /\ pc' = IF Len(df'.rows) = 0 THEN "ValueError" ELSE "loaded"
    /\ UNCHANGED <<args, ntotal, reference_csv, indices, context, valid_indices, snapshot,
                   nonInsightVars>>

\* main: bundle = retrieve(index, query, embedder, top_k=args.top_k)
Retrieve ==
    /\ pc = "loaded"
    /\ LET k == IF args.top_k < ntotal THEN args.top_k ELSE ntotal
       IN  indices' \in SearchResults(ntotal, k)
    /\ pc' = "retrieved"
    /\ UNCHANGED <<args, ntotal, reference_csv, df, context, valid_indices, snapshot, nonInsightVars>>

\* main: context, valid_indices = build_context(df, bundle, ...)
BuildContext ==
    /\ pc = "retrieved"
    /\ LET built == build_context(df, indices, args.min_context_chars,
                                  AvailableColumns(df))
       IN  /\ context' = built[1]
           /\ valid_indices' = built[2]
    /\ pc' = "built"
    /\ UNCHANGED <<args, ntotal, reference_csv, df, indices, snapshot, nonInsightVars>>

\* main: context = fallback_context(context, min_length=args.min_context_length)
Fallback ==
    /\ pc = "built"
    /\ context' = fallback_context(context, args.min_context_length)
    /\ pc' = "ready"
    /\ UNCHANGED <<args, ntotal, reference_csv, df, indices, valid_indices, snapshot, nonInsightVars>>

\* export_retrieved_rows(df, indices, export_path): nothing is written for
\* an empty list; otherwise df.iloc[indices] with the column retrieval_rank
\* in front replaces the file (to_csv in its default mode "w", index=False)
export_retrieved_rows(table, ids, file) ==
    IF ids = <<>> THEN file
    ELSE [exists |-> TRUE,
          rows |-> [n \in 1..Len(ids) |->
                       [retrieval_rank |-> n, row |-> Iloc(table, ids[n])]]]

\* main: the prompt and the generation, then
\* if args.export_tickets: export_retrieved_rows(df, valid_indices, ...)
Export ==
    /\ pc = "ready"
    /\ \E export_tickets \in BOOLEAN :
           snapshot' = IF export_tickets
                       THEN export_retrieved_rows(df, valid_indices, snapshot)
                       ELSE snapshot
    /\ pc' = "answered"
    /\ UNCHANGED <<args, ntotal, reference_csv, df, indices, context,
                   valid_indices, nonInsightVars>>

InsightNext ==
    Validate \/ Load \/ Retrieve \/ BuildContext \/ Fallback \/ Export

SpecInsights == InsightInit /\ [][InsightNext]_vars

---------------------------------------------------------------------------
(* build_context called as a function: any array of row ids, any table.    *)

\* whether the loop reaches df.iloc[idx] with an idx outside the table:
\* df.iloc[idx] raises IndexError (single positional indexer is
\* out-of-bounds) below -len(df) and from len(df) on
BuildContextRaises(table, bundle) ==
    \E n \in 1..Len(bundle) :
        /\ ~(bundle[n] = -1 \/ bundle[n] >= Len(table.rows))
        /\ (bundle[n] < 0 - Len(table.rows) \/ bundle[n] >= Len(table.rows))

AssembleInit ==
    /\ args \in {a \in Arguments : a.top_k = MaxTopK /\ a.min_context_chars >= 1
                                   /\ a.min_context_length = DefaultMinContextLength}
    /\ ntotal = 0
    /\ reference_csv \in CsvFiles
    /\ df = read_csv(reference_csv)
    /\ pc = "call"
    \* the arrays of at most MaxTopK ids, from below the sentinel -1 to
    \* the table bound
    /\ indices \in UNION {[1..k -> (0 - 2)..MaxRows] : k \in 0..MaxTopK}
    /\ context = <<>>
    /\ valid_indices = <<>>
    /\ snapshot = [exists |-> FALSE, rows |-> <<>>]
    /\ cell = None
    /\ stage = "off"
    /\ rewritten = <<>>
    /\ rewritten2 = <<>>
    /\ cleaned = <<>>
    /\ row_text = <<>>
    /\ LogOff
    /\ ScriptsOff
    /\ WebOff
    /\ PipelineOff

\* build_context(df, bundle, min_alpha_chars, available_columns) returns
AssembleReturns ==
    /\ pc = "call"
    /\ ~BuildContextRaises(df, indices)
    /\ LET built == build_context(df, indices, args.min_context_chars,
                                  AvailableColumns(df))
       IN  /\ context' = built[1]
           /\ valid_indices' = built[2]
    /\ pc' = "returned"
    /\ UNCHANGED <<args, ntotal, reference_csv, df, indices, snapshot, nonInsightVars>>

\* row = df.iloc[idx] raises
AssembleRaises ==
    /\ pc = "call"
    /\ BuildContextRaises(df, indices)
    /\ pc' = "IndexError"
    /\ UNCHANGED <<args, ntotal, reference_csv, df, indices, context,
                   valid_indices, snapshot, nonInsightVars>>

AssembleNext == AssembleReturns \/ AssembleRaises

SpecAssemble == AssembleInit /\ [][AssembleNext]_vars

---------------------------------------------------------------------------
(* retrieve_similar_tickets of web_app and of JiraChatbot, called on any   *)
(* index size, table and top_k.                                            *)

\* DataFrame.iloc raises IndexError for a position outside -len(df)..len(df)-1
OutOfBounds(table, idx) ==
    idx < 0 - Len(table.rows) \/ idx >= Len(table.rows)

\* web_app.retrieve_similar_tickets, the loop over indices[0]: one ticket
\* for every id, built from reference_df.iloc[idx]
retrieve_similar_tickets(table, ids) ==
    [n \in 1..Len(ids) |-> [idx |-> ids[n], row |-> Iloc(table, ids[n])]]

\* JiraChatbot.retrieve_similar_tickets: reference_df.iloc[indices[0]].copy(),
\* the rows at the positions of the array, in its order
chatbot_retrieve_similar_tickets(table, ids) ==
    [n \in 1..Len(ids) |-> [idx |-> ids[n], row |-> Iloc(table, ids[n])]]

RetrieveInit ==
    /\ args \in {a \in Arguments : a.top_k >= 1 /\ a.min_context_chars = 0
                                   /\ a.min_context_length = 0}
    /\ ntotal \in 0..MaxVectors
    /\ reference_csv \in CsvFiles
    /\ df = read_csv(reference_csv)
    /\ pc \in {"web_app", "chatbot"}
    /\ indices = <<>>
    /\ context = <<>>
    /\ valid_indices = <<>>
    /\ snapshot = [exists |-> FALSE, rows |-> <<>>]
    /\ cell = None
    /\ stage = "off"
    /\ rewritten = <<>>
    /\ rewritten2 = <<>>
    /\ cleaned = <<>>
    /\ row_text = <<>>
    /\ LogOff
    /\ ScriptsOff
    /\ WebOff
    /\ PipelineOff

\* web_app.retrieve_similar_tickets(query, top_k) with the models loaded:
\* index.search(query_vec, top_k), then the loop
WebRetrieve ==
    /\ pc = "web_app"
    /\ \E ids \in SearchResults(ntotal, args.top_k) :
           /\ indices' = ids
           /\ IF \E n \in 1..Len(ids) : OutOfBounds(df, ids[n])
              THEN pc' = "IndexError" /\ tickets' = tickets
              ELSE /\ pc' = "web_app returned"
                   /\ tickets' = retrieve_similar_tickets(df, ids)
    /\ UNCHANGED <<args, ntotal, reference_csv, df, context, valid_indices,
                   snapshot, globals, requests, responses, textVars, logVars,
                   scriptVars, pipelineVars>>

\* JiraChatbot.retrieve_similar_tickets(query):
\* index.search(query_vec, self.top_k), then reference_df.iloc[...]
ChatbotRetrieve ==
    /\ pc = "chatbot"
    /\ \E ids \in SearchResults(ntotal, args.top_k) :
           /\ indices' = ids
           /\ IF \E n \in 1..Len(ids) : OutOfBounds(df, ids[n])
              THEN pc' = "IndexError" /\ tickets' = tickets
              ELSE /\ pc' = "chatbot returned"
                   /\ tickets' = chatbot_retrieve_similar_tickets(df, ids)
    /\ UNCHANGED <<args, ntotal, reference_csv, df, context, valid_indices,
                   snapshot, globals, requests, responses, textVars, logVars,
                   scriptVars, pipelineVars>>

RetrieveNext == WebRetrieve \/ ChatbotRetrieve

SpecRetrieve == RetrieveInit /\ [][RetrieveNext]_vars

---------------------------------------------------------------------------
(* step4_generate_insights.save_report on one report_path.                 *)

\* the most save_report calls, and the latest clock reading
MaxCalls == 3
MaxClock == 2

\* columns=["timestamp", "query", "insight"]
Header == [timestamp |-> <<"timestamp">>, query |-> "query", insight |-> "insight"]

\* datetime.now().strftime("%Y-%m-%d %H:%M:%S"): the date and the second
strftime(t) == <<"2026-01-01 00:00:", t>>

Queries == {"q1", "q2"}
Answers == {"a1", "a2"}

\* to_csv in mode "w" with its default header=True
AppendRecord_with_header(file, record) ==
    [exists |-> TRUE, rows |-> <<Header, record>>]

\* new_record.to_csv(report_path, mode="a", header=False, index=False)
AppendRecord(file, record) ==
    [exists |-> TRUE, rows |-> file.rows \o <<record>>]

LogInit ==
    /\ report = [exists |-> FALSE, rows |-> <<>>]
    /\ lpc = [p \in Procs |-> "idle"]
    /\ job = [p \in Procs |-> <<>>]
    /\ calls = <<>>
    /\ now = 0
    /\ cell = None
    /\ stage = "off"
    /\ rewritten = <<>>
    /\ rewritten2 = <<>>
    /\ cleaned = <<>>
    /\ row_text = <<>>
    /\ args = [top_k |-> 0, min_context_chars |-> 0, min_context_length |-> 0]
    /\ ntotal = 0
    /\ reference_csv = [columns |-> {}, rows |-> <<>>]
    /\ df = [columns |-> {}, rows |-> <<>>]
    /\ pc = "off"
    /\ indices = <<>>
    /\ context = <<>>
    /\ valid_indices = <<>>
    /\ snapshot = [exists |-> FALSE, rows |-> <<>>]
    /\ ScriptsOff
    /\ WebOff
    /\ PipelineOff

\* save_report(report_path, query, answer) is called: os.makedirs
CallSaveReport(p, query, answer) ==
    /\ lpc[p] = "idle"
    /\ Len(calls) < MaxCalls
    /\ job' = [job EXCEPT ![p] = <<query, answer>>]
    /\ calls' = Append(calls, <<query, answer>>)
    /\ lpc' = [lpc EXCEPT ![p] = "check"]
    /\ UNCHANGED <<report, now, nonLogVars>>

\* if not report_path.exists():
CheckExists(p) ==
    /\ lpc[p] = "check"
    /\ lpc' = [lpc EXCEPT ![p] = IF report.exists THEN "append" ELSE "header"]
    /\ UNCHANGED <<report, job, calls, now, nonLogVars>>

\* pd.DataFrame(columns=[...]).to_csv(report_path, index=False)
CreateWithHeader(p) ==
    /\ lpc[p] = "header"
    \* pd.DataFrame(columns=[...]).to_csv(report_path, index=False): mode
    \* "w", the file is created or truncated and holds the header row alone
    /\ report' = [exists |-> TRUE, rows |-> <<Header>>]
    /\ lpc' = [lpc EXCEPT ![p] = "append"]
    /\ UNCHANGED <<job, calls, now, nonLogVars>>

\* new_record = ...datetime.now()...; new_record.to_csv(mode="a", ...)
AppendRow(p) ==
    /\ lpc[p] = "append"
    /\ \E t \in now..MaxClock :
           /\ now' = t
           /\ report' = AppendRecord(report,
                  [timestamp |-> strftime(t), query |-> job[p][1], insight |-> job[p][2]])
    /\ lpc' = [lpc EXCEPT ![p] = "idle"]
    /\ UNCHANGED <<job, calls, nonLogVars>>

\* one call after the other: a call starts when no call is in progress
SequentialNext ==
    \E p \in Procs :
        \/ /\ \A o \in Procs : lpc[o] = "idle"
           /\ \E query \in Queries, answer \in Answers :
                  CallSaveReport(p, query, answer)
        \/ CheckExists(p)
        \/ CreateWithHeader(p)
        \/ AppendRow(p)

SpecLogSequential == LogInit /\ [][SequentialNext]_vars

\* two processes on the same path, their steps interleaved
ConcurrentNext ==
    \E p \in Procs :
        \/ \E query \in Queries, answer \in Answers :
               CallSaveReport(p, query, answer)
        \/ CheckExists(p)
        \/ CreateWithHeader(p)
        \/ AppendRow(p)

SpecLogConcurrent == LogInit /\ [][ConcurrentNext]_vars

---------------------------------------------------------------------------
(* The entry points: what each script does with its files, its models,     *)
(* its prompts and its failures.                                           *)

\* the most inputs read at a prompt and requests served in one run
MaxTurns == 2

\* top_k of JiraChatbot.__init__ and of chatbot.parse_args
ChatTopK == 3

\* a line written to the terminal: whether it tells the user what to do,
\* the script it names, and the columns it names
Msg(text, corrective, step, column) ==
    [text |-> text, corrective |-> corrective, step |-> step, column |-> column]

\* the lines step4_generate_insights prints, and the messages of its exceptions
Step4Messages ==
    [ no_index |->
         Msg("Could not find index_path. Run step3_build_index.py to generate it first.",
             TRUE, "step3_build_index.py", {}),
     index_empty |->
         Msg("The FAISS index is empty. Re-run step3_build_index.py after preparing data.",
             TRUE, "step3_build_index.py", {}),
     no_reference |->
         Msg("Could not find reference_path. Ensure step3_build_index.py completed successfully.",
             TRUE, "step3_build_index.py", {}),
     reference_empty |->
         Msg("The Jira reference file is empty. Verify earlier preprocessing steps produced data.",
             TRUE, "", {}),
     query_required |->
         Msg("A query is required to generate insights.",
             FALSE, "", {}),
     insight |->
         Msg("Insight:",
             FALSE, "", {})]

\* the lines chatbot prints, and the messages of its exceptions
ChatbotMessages ==
    [ no_index |->
         Msg("Error: Index file not found",
             FALSE, "", {}),
     run_step3 |->
         Msg("Please run step3_build_index.py first to create the FAISS index.",
             TRUE, "step3_build_index.py", {}),
     no_reference |->
         Msg("Error: Reference file not found",
             FALSE, "", {}),
     ensure_reference |->
         Msg("Please ensure your reference CSV file exists.",
             TRUE, "", {}),
     ready |->
         Msg("Chatbot ready!",
             FALSE, "", {}),
     goodbye |->
         Msg("Goodbye! Thank you for using the Jira Ticket Chatbot.",
             FALSE, "", {}),
     interrupted_goodbye |->
         Msg("Interrupted. Goodbye!",
             FALSE, "", {}),
     error |->
         Msg("Error: e",
             FALSE, "", {}),
     try_again |->
         Msg("Please try again with a different question.",
             TRUE, "", {})]

\* the lines web_app prints, and the messages of its exceptions
WebAppMessages ==
    [ no_index |->
         Msg("Error: Index file not found at index_path",
             FALSE, "", {}),
     run_step3 |->
         Msg("Please run: python step3_build_index.py",
             TRUE, "step3_build_index.py", {}),
     no_reference |->
         Msg("Error: Reference file not found at reference_path",
             FALSE, "", {}),
     failed |->
         Msg("[ERROR] Failed to load models. Please run the pipeline first: python run_pipeline.py",
             TRUE, "run_pipeline.py", {}),
     starting |->
         Msg("[STARTING] RAG Jira Web Application",
             FALSE, "", {})]

\* the lines run_pipeline prints, and the messages of its exceptions
PipelineMessages ==
    [ no_input |->
         Msg("Input file not found: input_file",
             FALSE, "", {}),
     ensure_csv |->
         Msg("Please ensure your Jira export CSV is in the repository root.",
             TRUE, "", {}),
     step_failed |->
         Msg("failed with error code",
             FALSE, "", {}),
     stopped |->
         Msg("Pipeline stopped due to failure in step: step_name",
             FALSE, "", {}),
     chatbot_error |->
         Msg("Chatbot encountered an error",
             FALSE, "", {}),
     interrupted |->
         Msg("Chatbot interrupted by user",
             FALSE, "", {}),
     complete |->
         Msg("PIPELINE COMPLETE!",
             FALSE, "", {})]

\* the lines rag_generate prints, and the messages of its exceptions
RagGenerateMessages ==
    [ cannot_open |->
         Msg("RuntimeError: could not open data/rag_index.faiss for reading",
             FALSE, "", {}),
     no_file |->
         Msg("FileNotFoundError: No such file or directory: 'data/rag_docs.csv'",
             FALSE, "", {}),
     index_empty |->
         Msg("The FAISS index is empty. Run rag_index.py to build it before querying.",
             TRUE, "rag_index.py", {}),
     insight |->
         Msg("Insight:",
             FALSE, "", {})]

\* the lines step5_rewrite_tickets prints, and the messages of its exceptions
RewriteMessages ==
    [ no_input |->
         Msg("Input file not found: input",
             FALSE, "", {}),
     no_column |->
         Msg("None of the candidate columns exist: candidates",
             FALSE, "", {}),
     done |->
         Msg("Tickets rewritten for clearer language",
             FALSE, "", {})]

\* the lines step3_build_index prints, and the messages of its exceptions
Step3Messages ==
    [ no_cleaned |->
         Msg("Could not find data/jira_cleaned_ready.csv. Run step5_clean_descriptions.py first.",
             TRUE, "step5_clean_descriptions.py", {}),
     saved |->
         Msg("FAISS index built and saved successfully!",
             FALSE, "", {})]

\* the tracebacks Python prints: an uncaught KeyboardInterrupt, and the
\* KeyError of df["Cleaned_Text"] on a table without that column
Tracebacks ==
    [KeyboardInterrupt |->
         Msg("Traceback (most recent call last): KeyboardInterrupt",
             FALSE, "", {}),
     KeyError_Cleaned_Text |->
         Msg("KeyError: 'Cleaned_Text'",
             FALSE, "", {"Cleaned_Text"})]

\* DEFAULT_SOURCE_COLUMNS
DEFAULT_SOURCE_COLUMNS == <<"Cleaned_Text", "text">>

ScriptInit ==
    /\ script \in {"step4_generate_insights", "chatbot", "web_app",
                  "run_pipeline", "rag_generate", "step5_rewrite_tickets",
                  "step3_build_index"}
    /\ index_file \in {"absent", "empty", "vectors"}
    /\ table_file \in {"absent", "no_rows", "rows"}
    /\ table_columns \in
           IF table_file = "absent" THEN {{}}
           ELSE SUBSET {"Cleaned_Text", "text"}
    /\ input_file \in BOOLEAN
    /\ spc = "start"
    /\ printed = {}
    /\ exit_status = "running"
    /\ uncaught = ""
    /\ models_loaded = FALSE
    /\ chat = NoChatbot
    /\ turns = 0
    /\ interrupted_at = ""
    /\ stdin = "open"
    /\ user_input = <<>>
    /\ cell = None
    /\ stage = "off"
    /\ rewritten = <<>>
    /\ rewritten2 = <<>>
    /\ cleaned = <<>>
    /\ row_text = <<>>
    /\ args = [top_k |-> 0, min_context_chars |-> 0, min_context_length |-> 0]
    /\ ntotal = 0
    /\ reference_csv = [columns |-> {}, rows |-> <<>>]
    /\ df = [columns |-> {}, rows |-> <<>>]
    /\ pc = "off"
    /\ indices = <<>>
    /\ context = <<>>
    /\ valid_indices = <<>>
    /\ snapshot = [exists |-> FALSE, rows |-> <<>>]
    /\ LogOff
    /\ WebOff
    /\ PipelineOff

\* the process ends: an exception nobody caught (its traceback is printed), or
\* sys.exit / the end of the script
Ends(status, exception, messages) ==
    /\ spc' = "ended"
    /\ exit_status' = status
    /\ uncaught' = exception
    /\ printed' = printed \cup messages

\* the script goes on to position next after printing messages
GoesOn(next, messages) ==
    /\ spc' = next
    /\ printed' = printed \cup messages
    /\ UNCHANGED <<exit_status, uncaught>>

\* step4_generate_insights.main: load_index and load_reference, for a command
\* line that passed the range checks
Step4Load ==
    /\ script = "step4_generate_insights" /\ spc = "start"
    /\ IF index_file = "absent"
       THEN Ends("1", "FileNotFoundError", {Step4Messages.no_index})
       ELSE IF index_file = "empty"
       THEN Ends("1", "ValueError", {Step4Messages.index_empty})
       ELSE IF table_file = "absent"
       THEN Ends("1", "FileNotFoundError", {Step4Messages.no_reference})
       ELSE IF table_file = "no_rows"
       THEN Ends("1", "ValueError", {Step4Messages.reference_empty})
       ELSE GoesOn("load_models", {})
    /\ UNCHANGED <<script, index_file, table_file, table_columns, input_file,
                   models_loaded, chat, turns, interrupted_at, stdin, user_input,
                   nonScriptVars>>

\* main: SentenceTransformer(...), AutoTokenizer..., AutoModelForSeq2SeqLM...
Step4LoadModels ==
    /\ script = "step4_generate_insights" /\ spc = "load_models"
    /\ models_loaded' = TRUE
    /\ GoesOn("prompt", {})
    /\ UNCHANGED <<script, index_file, table_file, table_columns, input_file,
                   chat, turns, interrupted_at, stdin, user_input,
                   nonScriptVars>>

\* main: query = (args.query or input(...)).strip() and the rest of main
Step4Query ==
    /\ script = "step4_generate_insights" /\ spc = "prompt"
    /\ \E typed \in {"query", "blank", "Ctrl-C"} :
           IF typed = "Ctrl-C"
           THEN /\ Ends("130", "KeyboardInterrupt", {Tracebacks.KeyboardInterrupt})
                /\ interrupted_at' = "step4_prompt"
           ELSE IF typed = "blank"
           THEN /\ Ends("1", "ValueError", {Step4Messages.query_required})
                /\ UNCHANGED interrupted_at
           ELSE /\ Ends("0", "", {Step4Messages.insight})
                /\ UNCHANGED interrupted_at
    /\ turns' = turns + 1
    /\ UNCHANGED <<script, index_file, table_file, table_columns, input_file,
                   models_loaded, chat, stdin, user_input,
                   nonScriptVars>>

\* chatbot.main: the two existence checks
ChatbotMain ==
    /\ script = "chatbot" /\ spc = "start"
    /\ IF index_file = "absent"
       THEN Ends("1", "", {ChatbotMessages.no_index, ChatbotMessages.run_step3})
       ELSE IF table_file = "absent"
       THEN Ends("1", "", {ChatbotMessages.no_reference, ChatbotMessages.ensure_reference})
       ELSE GoesOn("init", {})
    /\ UNCHANGED <<script, index_file, table_file, table_columns, input_file,
                   models_loaded, chat, turns, interrupted_at, stdin, user_input,
                   nonScriptVars>>

\* JiraChatbot.__init__: read_index, read_csv, the encoder and the model
ChatbotInit ==
    /\ script = "chatbot" /\ spc = "init"
    /\ chat' = [index |-> index_file,
                reference_df |-> <<table_file, table_columns>>,
                models |-> TRUE, top_k |-> ChatTopK]
    /\ models_loaded' = TRUE
    /\ GoesOn("chat_prompt", {ChatbotMessages.ready})
    /\ UNCHANGED <<script, index_file, table_file, table_columns, input_file,
                   turns, interrupted_at, stdin, user_input,
                   nonScriptVars>>

\* the exceptions a step of the chat loop may raise
Raised == {"KeyboardInterrupt", "EOFError", "IndexError", "TypeError", "RuntimeError"}

\* the except clause of chat's try that takes only ValueError
Handler_value_error_only(exception) ==
    IF exception = "KeyboardInterrupt" THEN "interrupted"
    ELSE IF exception = "ValueError" THEN "caught"
    ELSE "uncaught"

\* chat: except KeyboardInterrupt / except Exception
Handler(exception) ==
    IF exception = "KeyboardInterrupt" THEN "interrupted"
    ELSE IF exception \in Raised \cup {"ValueError", "KeyError", "Exception"}
    THEN "caught"
    ELSE "uncaught"

\* what chat does with an exception raised at position at inside its try
ChatRaises(exception, at) ==
    IF Handler(exception) = "interrupted"
    THEN /\ Ends("0", "", {ChatbotMessages.interrupted_goodbye})
         /\ interrupted_at' = at
    ELSE IF Handler(exception) = "caught"
    THEN /\ GoesOn("caught", {})
         /\ UNCHANGED interrupted_at
    ELSE /\ Ends("1", exception, {})
         /\ UNCHANGED interrupted_at

\* chat: user_input.lower() in ["quit", "exit", "q", "bye"], compared as typed
IsExitCommand_as_typed(text) ==
    text \in {<<"q","u","i","t">>, <<"e","x","i","t">>, <<"q">>, <<"b","y","e">>}

\* chat: user_input.lower() in ["quit", "exit", "q", "bye"]
IsExitCommand(text) ==
    [j \in 1..Len(text) |-> LowerChar(text[j])] \in
        {<<"q","u","i","t">>, <<"e","x","i","t">>, <<"q">>, <<"b","y","e">>}

\* chat: user_input = input("\nYou: ").strip(), the exit commands and the
\* empty input.  input() returns the line typed, or raises EOFError at the
\* end of the input (for good when the stream is a file or a pipe that is
\* exhausted, once when a terminal sends end-of-file), or KeyboardInterrupt
ChatPrompt ==
    /\ script = "chatbot" /\ spc = "chat_prompt"
    /\ \/ /\ stdin = "open"
          /\ turns < MaxTurns
          /\ turns' = turns + 1
          /\ \E line \in {<<>>, <<" ">>, <<"q">>, <<" ","B","y","e"," ">>,
                           <<"q","u","i","t","s">>, <<" ","c","a","m">>} :
                 /\ user_input' = Strip(line)
                 /\ IF IsExitCommand(user_input')
                    THEN Ends("0", "", {ChatbotMessages.goodbye})
                    ELSE IF user_input' = <<>>
                    THEN GoesOn("chat_prompt", {})
                    ELSE GoesOn("retrieve", {})
          /\ UNCHANGED <<interrupted_at, stdin>>
       \/ /\ ChatRaises("EOFError", "chat_prompt")
          /\ stdin' \in IF stdin = "open" THEN {"open", "exhausted"}
                         ELSE {"exhausted"}
          /\ UNCHANGED <<turns, user_input>>
       \/ /\ ChatRaises("KeyboardInterrupt", "chat_prompt")
          /\ UNCHANGED <<turns, stdin, user_input>>
    /\ UNCHANGED <<script, index_file, table_file, table_columns, input_file,
                   models_loaded, chat, nonScriptVars>>

\* chat: retrieve_similar_tickets, display_tickets, generate_answer
ChatHandle(at, next) ==
    /\ script = "chatbot" /\ spc = at
    /\ \/ GoesOn(next, {}) /\ UNCHANGED interrupted_at
       \/ \E exception \in Raised : ChatRaises(exception, at)
    /\ UNCHANGED <<script, index_file, table_file, table_columns, input_file,
                   models_loaded, chat, turns, stdin, user_input,
                   nonScriptVars>>

\* chat: except Exception as e: the two prints, then the loop goes on
ChatCaught ==
    /\ script = "chatbot" /\ spc = "caught"
    /\ GoesOn("chat_prompt", {ChatbotMessages.error, ChatbotMessages.try_again})
    /\ UNCHANGED <<script, index_file, table_file, table_columns, input_file,
                   models_loaded, chat, turns, interrupted_at, stdin, user_input,
                   nonScriptVars>>

\* web_app: if load_models(): app.run(...) else: the two prints
WebAppMain ==
    /\ script = "web_app" /\ spc = "start"
    /\ IF index_file = "absent"
       THEN /\ Ends("0", "", {WebAppMessages.no_index, WebAppMessages.run_step3, WebAppMessages.failed})
            /\ UNCHANGED models_loaded
       ELSE IF table_file = "absent"
       THEN /\ Ends("0", "", {WebAppMessages.no_reference, WebAppMessages.failed})
            /\ UNCHANGED models_loaded
       ELSE /\ GoesOn("serving", {WebAppMessages.starting})
            /\ models_loaded' = TRUE
    /\ UNCHANGED <<script, index_file, table_file, table_columns, input_file,
                   chat, turns, interrupted_at, stdin, user_input,
                   nonScriptVars>>

\* web_app.categories: a request while the server runs; an exception in the
\* handler is logged and answered with status 500
WebAppCategories ==
    /\ script = "web_app" /\ spc = "serving"
    /\ turns < MaxTurns
    /\ turns' = turns + 1
    /\ IF "Cleaned_Text" \notin table_columns
       THEN GoesOn("serving", {Tracebacks.KeyError_Cleaned_Text})
       ELSE GoesOn("serving", {})
    /\ UNCHANGED <<script, index_file, table_file, table_columns, input_file,
                   models_loaded, chat, interrupted_at, stdin, user_input,
                   nonScriptVars>>

\* run_pipeline: step1_inspect and the scripts of steps 1 to 4
PipelineSteps ==
    /\ script = "run_pipeline" /\ spc = "start"
    /\ IF ~input_file
       THEN Ends("1", "", {PipelineMessages.no_input, PipelineMessages.ensure_csv,
                           PipelineMessages.stopped})
       ELSE \/ Ends("1", "", {PipelineMessages.step_failed, PipelineMessages.stopped})
            \/ GoesOn("launch_prompt", {})
    /\ UNCHANGED <<script, index_file, table_file, table_columns, input_file,
                   models_loaded, chat, turns, interrupted_at, stdin, user_input,
                   nonScriptVars>>

\* step5_chatbot: response = input("Launch chatbot now? [Y/n]: ")
PipelineLaunch ==
    /\ script = "run_pipeline" /\ spc = "launch_prompt"
    /\ \E typed \in {"yes", "no", "Ctrl-C"} :
           IF typed = "Ctrl-C"
           THEN /\ Ends("130", "KeyboardInterrupt", {Tracebacks.KeyboardInterrupt})
                /\ interrupted_at' = "launch_prompt"
           ELSE IF typed = "no"
           THEN Ends("0", "", {PipelineMessages.complete}) /\ UNCHANGED interrupted_at
           ELSE GoesOn("chatbot_running", {}) /\ UNCHANGED interrupted_at
    /\ turns' = turns + 1
    /\ UNCHANGED <<script, index_file, table_file, table_columns, input_file,
                   models_loaded, chat, stdin, user_input,
                   nonScriptVars>>

\* step5_chatbot: subprocess.run(["python", "chatbot.py"], check=True)
PipelineChatbot ==
    /\ script = "run_pipeline" /\ spc = "chatbot_running"
    /\ \E outcome \in {"returned", "CalledProcessError", "KeyboardInterrupt"} :
           IF outcome = "KeyboardInterrupt"
           THEN /\ Ends("0", "", {ChatbotMessages.interrupted_goodbye, PipelineMessages.interrupted,
                                  PipelineMessages.complete})
                /\ interrupted_at' = "chatbot_running"
           ELSE IF outcome = "CalledProcessError"
           THEN /\ Ends("1", "", {PipelineMessages.chatbot_error, PipelineMessages.stopped})
                /\ UNCHANGED interrupted_at
           ELSE /\ Ends("0", "", {ChatbotMessages.goodbye, PipelineMessages.complete})
                /\ UNCHANGED interrupted_at
    /\ UNCHANGED <<script, index_file, table_file, table_columns, input_file,
                   models_loaded, chat, turns, stdin, user_input,
                   nonScriptVars>>

\* rag_generate: read_index, read_csv, then the three models
RagGenerateLoad ==
    /\ script = "rag_generate" /\ spc = "start"
    /\ IF index_file = "absent"
       THEN /\ Ends("1", "RuntimeError", {RagGenerateMessages.cannot_open})
            /\ UNCHANGED models_loaded
       ELSE IF table_file = "absent"
       THEN /\ Ends("1", "FileNotFoundError", {RagGenerateMessages.no_file})
            /\ UNCHANGED models_loaded
       ELSE /\ GoesOn("prompt", {})
            /\ models_loaded' = TRUE
    /\ UNCHANGED <<script, index_file, table_file, table_columns, input_file,
                   chat, turns, interrupted_at, stdin, user_input,
                   nonScriptVars>>

\* rag_generate: query = input(...); if index.ntotal == 0: raise ValueError
RagGenerateQuery ==
    /\ script = "rag_generate" /\ spc = "prompt"
    /\ \E typed \in {"query", "Ctrl-C"} :
           IF typed = "Ctrl-C"
           THEN /\ Ends("130", "KeyboardInterrupt", {Tracebacks.KeyboardInterrupt})
                /\ interrupted_at' = "rag_prompt"
           ELSE IF index_file = "empty"
           THEN /\ Ends("1", "ValueError", {RagGenerateMessages.index_empty})
                /\ UNCHANGED interrupted_at
           ELSE /\ Ends("0", "", {RagGenerateMessages.insight})
                /\ UNCHANGED interrupted_at
    /\ turns' = turns + 1
    /\ UNCHANGED <<script, index_file, table_file, table_columns, input_file,
                   models_loaded, chat, stdin, user_input,
                   nonScriptVars>>

\* step5_rewrite_tickets.main: the input file, detect_source_column,
\* rewrite_dataframe; source_column is "" when --source-column is not given
RewriteMain ==
    /\ script = "step5_rewrite_tickets" /\ spc = "start"
    /\ \E source_column \in {"", "Rewritten_Text", "text"} :
           LET source_candidates ==
                   IF source_column # "" THEN <<source_column>>
                   ELSE DEFAULT_SOURCE_COLUMNS
               present == {n \in 1..Len(source_candidates) :
                              source_candidates[n] \in table_columns}
           IN  IF table_file = "absent"
               THEN Ends("1", "SystemExit", {RewriteMessages.no_input})
               ELSE IF present = {}
               THEN Ends("1", "SystemExit",
                         {[RewriteMessages.no_column EXCEPT !.column =
                              {source_candidates[n] : n \in 1..Len(source_candidates)}]})
               ELSE Ends("0", "", {RewriteMessages.done})
    /\ UNCHANGED <<script, index_file, table_file, table_columns, input_file,
                   models_loaded, chat, turns, interrupted_at, stdin, user_input,
                   nonScriptVars>>

\* step3_build_index: the cleaned file, the embedding model, df["Cleaned_Text"]
BuildIndex ==
    /\ script = "step3_build_index" /\ spc = "start"
    /\ IF table_file = "absent"
       THEN /\ Ends("1", "FileNotFoundError", {Step3Messages.no_cleaned})
            /\ UNCHANGED models_loaded
       ELSE IF "Cleaned_Text" \notin table_columns
       THEN /\ Ends("1", "KeyError", {Tracebacks.KeyError_Cleaned_Text})
            /\ models_loaded' = TRUE
       ELSE /\ Ends("0", "", {Step3Messages.saved})
            /\ models_loaded' = TRUE
    /\ UNCHANGED <<script, index_file, table_file, table_columns, input_file,
                   chat, turns, interrupted_at, stdin, user_input,
                   nonScriptVars>>

ScriptNext ==
    \/ Step4Load
    \/ Step4LoadModels
    \/ Step4Query
    \/ ChatbotMain
    \/ ChatbotInit
    \/ ChatPrompt
    \/ ChatHandle("retrieve", "display")
    \/ ChatHandle("display", "generate")
    \/ ChatHandle("generate", "chat_prompt")
    \/ ChatCaught
    \/ WebAppMain
    \/ WebAppCategories
    \/ PipelineSteps
    \/ PipelineLaunch
    \/ PipelineChatbot
    \/ RagGenerateLoad
    \/ RagGenerateQuery
    \/ RewriteMain
    \/ BuildIndex

SpecScripts == ScriptInit /\ [][ScriptNext]_vars

---------------------------------------------------------------------------
(* web_app: load_models at startup, then the request handlers running in   *)
(* the server's threads, each reading the module globals.                  *)

\* a global that holds an object of class kind (a table for a DataFrame, the
\* number of vectors for an index)
Object(kind, n, table) == [kind |-> kind, ntotal |-> n, table |-> table]

\* bool(value), as all() asks for it: None is false; an object is true unless
\* its class says otherwise: the encoder (an nn.Sequential) and the tokenizer
\* have a positive length, and a DataFrame raises ValueError ("The truth
\* value of a DataFrame is ambiguous")
Truth(value) ==
    IF value.kind = "None" THEN "False"
    ELSE IF value.kind = "DataFrame" THEN "ValueError"
    ELSE "True"

\* all(values): the truth of the values in order, up to the first that is
\* not true
All(values) ==
    LET rest == {n \in 1..Len(values) : Truth(values[n]) # "True"}
    IN  IF rest = {} THEN "True" ELSE Truth(values[Min(rest)])

\* the globals after a handler ran, with a handler that keeps the rows of
\* the reference table it filtered
AfterHandler_keeping_filtered_rows(g, route) ==
    IF route = "/api/categories" /\ g.reference_df.kind = "DataFrame"
    THEN [g EXCEPT !.reference_df.table.rows = <<>>]
    ELSE g

\* the globals after a handler ran: no handler declares a name global, and
\* iloc, get, value_counts, str.contains and the boolean selection
\* original_df[...] all return new objects
AfterHandler(g, route) == g

WebInit ==
    /\ script \in {"web_app", "wsgi"}
    /\ index_file \in {"absent", "empty", "vectors"}
    /\ table_file \in {"absent", "rows"}
    /\ table_columns = {}
    /\ input_file \in BOOLEAN
    /\ ntotal = IF index_file = "vectors" THEN MaxVectors ELSE 0
    /\ reference_csv \in {f \in CsvFiles : Len(f.rows) = 1}
    /\ spc = "start"
    /\ printed = {}
    /\ exit_status = "running"
    /\ uncaught = ""
    /\ models_loaded = FALSE
    /\ chat = NoChatbot
    /\ turns = 0
    /\ interrupted_at = ""
    /\ stdin = "open"
    /\ user_input = <<>>
    /\ WebOff
    /\ args = [top_k |-> 0, min_context_chars |-> 0, min_context_length |-> 0]
    /\ df = [columns |-> {}, rows |-> <<>>]
    /\ pc = "off"
    /\ indices = <<>>
    /\ context = <<>>
    /\ valid_indices = <<>>
    /\ snapshot = [exists |-> FALSE, rows |-> <<>>]
    /\ cell = None
    /\ stage = "off"
    /\ rewritten = <<>>
    /\ rewritten2 = <<>>
    /\ cleaned = <<>>
    /\ row_text = <<>>
    /\ LogOff
    /\ PipelineOff

\* python web_app.py: load_models(), then app.run(...) or the two prints;
\* the original CSV, when it exists, is read as a table of no matching ticket
LoadModels ==
    /\ script = "web_app" /\ spc = "start"
    /\ IF index_file = "absent"
       THEN /\ Ends("0", "", {WebAppMessages.no_index, WebAppMessages.run_step3,
                              WebAppMessages.failed})
            /\ UNCHANGED <<globals, models_loaded>>
       ELSE IF table_file = "absent"
       THEN /\ Ends("0", "", {WebAppMessages.no_reference, WebAppMessages.failed})
            /\ globals' = [globals EXCEPT
                               !.index = Object("Index", ntotal, NoTable)]
            /\ UNCHANGED models_loaded
       ELSE /\ GoesOn("serving", {WebAppMessages.starting})
            /\ models_loaded' = TRUE
            /\ globals' =
                   [encoder |-> Object("SentenceTransformer", 0, NoTable),
                    tokenizer |-> Object("AutoTokenizer", 0, NoTable),
                    model |-> Object("AutoModelForSeq2SeqLM", 0, NoTable),
                    index |-> Object("Index", ntotal, NoTable),
                    reference_df |->
                        Object("DataFrame", 0, read_csv(reference_csv)),
                    original_df |->
                        IF input_file
                        THEN Object("DataFrame", 0,
                                    [columns |-> {"Ticket Key"}, rows |-> <<>>])
                        ELSE globals.original_df]
    /\ UNCHANGED <<script, index_file, table_file, table_columns, input_file,
                   chat, turns, interrupted_at, stdin, user_input, requests,
                   responses, tickets, textVars, insightVars, logVars,
                   pipelineVars>>

\* the module is imported by a WSGI server that serves app: the code under
\* if __name__ == "__main__" does not run, and load_models is not called
Import ==
    /\ script = "wsgi" /\ spc = "start"
    /\ GoesOn("serving", {})
    /\ UNCHANGED <<script, index_file, table_file, table_columns, input_file,
                   models_loaded, chat, turns, interrupted_at, stdin,
                   user_input, webVars, textVars, insightVars, logVars,
                   pipelineVars>>

\* a request arrives and a server thread calls the route's function
Receive(t) ==
    /\ spc = "serving"
    /\ requests[t] = Idle
    /\ turns < MaxTurns
    /\ turns' = turns + 1
    /\ \E route \in {"/api/search", "/api/stats", "/api/health", "/api/categories"},
          query \in {"", "cam"} :
           requests' = [requests EXCEPT ![t] =
                           [route |-> route, at |-> "called",
                            query |-> IF route = "/api/search" THEN query ELSE "",
                            top_k |-> IF route = "/api/search" THEN MaxTopK ELSE 0]]
    /\ UNCHANGED <<globals, responses, tickets, script, index_file, table_file,
                   table_columns, input_file, spc, printed, exit_status,
                   uncaught, models_loaded, chat, interrupted_at, stdin,
                   user_input, textVars, insightVars, logVars, pipelineVars>>

\* the thread's handler returns: the response is sent and the thread is free
Respond(t, code, body) ==
    /\ responses' = Append(responses, [route |-> requests[t].route,
                                       code |-> code, body |-> body])
    /\ requests' = [requests EXCEPT ![t] = Idle]
    /\ globals' = AfterHandler(globals, requests[t].route)
    /\ UNCHANGED <<tickets, scriptVars, textVars, insightVars, logVars,
                   pipelineVars>>

\* search(), first half: the query check and retrieve_similar_tickets
SearchRetrieve(t) ==
    /\ requests[t].route = "/api/search" /\ requests[t].at = "called"
    /\ IF requests[t].query = ""
       THEN Respond(t, 400, [error |-> "Query is required"])
       ELSE IF \/ globals.encoder.kind = "None"
               \/ globals.index.kind = "None"
               \/ globals.reference_df.kind = "None"
       THEN /\ requests' = [requests EXCEPT ![t].at = "retrieved", ![t].top_k = 0]
            /\ UNCHANGED <<globals, responses, tickets, scriptVars, textVars,
                           insightVars, logVars, pipelineVars>>
       ELSE \E ids \in SearchResults(globals.index.ntotal, requests[t].top_k) :
                IF \E n \in 1..Len(ids) :
                       OutOfBounds(globals.reference_df.table, ids[n])
                THEN Respond(t, 500, [error |-> "IndexError"])
                ELSE /\ requests' = [requests EXCEPT ![t].at = "retrieved",
                                                     ![t].top_k = Len(ids)]
                     /\ UNCHANGED <<globals, responses, tickets, scriptVars,
                                    textVars, insightVars, logVars,
                                    pipelineVars>>

\* search(), second half: generate_answer and the response; top_k holds
\* len(tickets) by now
SearchAnswer(t) ==
    /\ requests[t].route = "/api/search" /\ requests[t].at = "retrieved"
    /\ Respond(t, 200,
               [query |-> requests[t].query,
                answer |-> IF \/ globals.tokenizer.kind = "None"
                              \/ globals.model.kind = "None"
                           THEN "Model not loaded" ELSE "answer",
                count |-> requests[t].top_k])

\* stats(): get_stats(), the empty object while no table is loaded
Stats(t) ==
    /\ requests[t].route = "/api/stats" /\ requests[t].at = "called"
    /\ IF globals.reference_df.kind = "None"
       THEN Respond(t, 200, <<>>)
       ELSE Respond(t, 200,
                    [total_tickets |-> Len(globals.reference_df.table.rows),
                     indexed_tickets |->
                         IF Truth(globals.index) = "True"
                         THEN globals.index.ntotal ELSE 0])

\* health(): all([encoder, tokenizer, model, index, reference_df]); an
\* exception raised in the handler is answered by Flask with status 500
Health(t) ==
    /\ requests[t].route = "/api/health" /\ requests[t].at = "called"
    /\ LET b == All(<<globals.encoder, globals.tokenizer, globals.model,
                      globals.index, globals.reference_df>>)
       IN  IF b \in {"True", "False"}
           THEN Respond(t, 200, [status |-> "ok", models_loaded |-> b = "True"])
           ELSE Respond(t, 500, [error |-> b])

\* categories(): the keyword counts; mask.sum() is a numpy.int64, which
\* jsonify cannot serialize
Categories(t) ==
    /\ requests[t].route = "/api/categories" /\ requests[t].at = "called"
    /\ IF globals.reference_df.kind = "None"
       THEN Respond(t, 500, [error |-> "Data not loaded"])
       ELSE IF "Cleaned_Text" \notin globals.reference_df.table.columns
       THEN Respond(t, 500, [error |-> "KeyError"])
       ELSE Respond(t, 500, [error |-> "TypeError"])

WebNext ==
    \/ LoadModels
    \/ Import
    \/ \E t \in Threads : Receive(t)
    \/ \E t \in Threads : SearchRetrieve(t)
    \/ \E t \in Threads : SearchAnswer(t)
    \/ \E t \in Threads : Stats(t)
    \/ \E t \in Threads : Health(t)
    \/ \E t \in Threads : Categories(t)

SpecWeb == WebInit /\ [][WebNext]_vars

---------------------------------------------------------------------------
(* run_pipeline: main and PipelineRunner.run_full_pipeline, step by step.  *)

\* the longest --steps list drawn
MaxStepNames == 2

\* all_steps, in the order of the dict
AllSteps == <<"inspect", "clean", "index", "insights", "chatbot">>

\* steps_to_run: {k: v for k, v in all_steps.items() if k in steps} when
\* steps is a non-empty list, all_steps otherwise
SelectSteps(given) ==
    LET Named(k) == \E n \in 1..Len(given) : given[n] = k
    IN  IF given # <<>> THEN SelectSeq(AllSteps, Named) ELSE AllSteps

\* what calling step_func() can give: True, False, or an exception that
\* nothing in run_pipeline catches.  run_command: subprocess.run(command,
\* check=True) returned, raised CalledProcessError, or was interrupted
\* (KeyboardInterrupt is not caught); a step's question: input(...) may raise
\* instead of returning an answer
StepResults(name, input_exists, skip_chatbot) ==
    LET CommandResults ==
            {[result |-> "success", messages |-> {}],
             [result |-> "failure",
              messages |-> {PipelineMessages.step_failed}],
             [result |-> "KeyboardInterrupt",
              messages |-> {Tracebacks.KeyboardInterrupt}]}
        PromptRaises ==
            {[result |-> "KeyboardInterrupt",
              messages |-> {Tracebacks.KeyboardInterrupt}],
             [result |-> "EOFError", messages |-> {}]}
    IN  IF name = "inspect"
        THEN IF ~input_exists
             THEN {[result |-> "failure",
                    messages |-> {PipelineMessages.no_input,
                                  PipelineMessages.ensure_csv}]}
             ELSE CommandResults
        ELSE IF name \in {"clean", "index"} THEN CommandResults
        ELSE IF name = "insights"
        THEN PromptRaises \cup CommandResults
                 \cup {[result |-> "success", messages |-> {}]}
        ELSE IF skip_chatbot THEN {[result |-> "success", messages |-> {}]}
        ELSE PromptRaises
                 \cup {[result |-> "success", messages |-> {}],
                       [result |-> "success",
                        messages |-> {PipelineMessages.interrupted}],
                       [result |-> "failure",
                        messages |-> {PipelineMessages.chatbot_error}]}

\* main: sys.exit(0 if success else 1), always 0
ExitStatus_always_zero(success) == "0"

\* main: sys.exit(0 if success else 1)
ExitStatus(success) == IF success THEN "0" ELSE "1"

PipelineInit ==
    /\ script = "run_pipeline"
    /\ steps \in UNION {[1..n -> {"inspect", "clean", "index", "insights",
                                  "chatbot", "deploy"}] :
                          n \in 0..MaxStepNames}
    /\ steps_to_run = <<>>
    /\ ran = <<>>
    /\ input_file \in BOOLEAN
    /\ index_file = "absent"
    /\ table_file = "absent"
    /\ table_columns = {}
    /\ spc = "start"
    /\ printed = {}
    /\ exit_status = "running"
    /\ uncaught = ""
    /\ models_loaded = FALSE
    /\ chat = NoChatbot
    /\ turns = 0
    /\ interrupted_at = ""
    /\ stdin = "open"
    /\ user_input = <<>>
    /\ args = [top_k |-> 0, min_context_chars |-> 0, min_context_length |-> 0]
    /\ ntotal = 0
    /\ reference_csv = [columns |-> {}, rows |-> <<>>]
    /\ df = [columns |-> {}, rows |-> <<>>]
    /\ pc = "off"
    /\ indices = <<>>
    /\ context = <<>>
    /\ valid_indices = <<>>
    /\ snapshot = [exists |-> FALSE, rows |-> <<>>]
    /\ cell = None
    /\ stage = "off"
    /\ rewritten = <<>>
    /\ rewritten2 = <<>>
    /\ cleaned = <<>>
    /\ row_text = <<>>
    /\ LogOff
    /\ WebOff

\* run_full_pipeline: the banner and the choice of steps_to_run
SelectStepsToRun ==
    /\ script = "run_pipeline" /\ spc = "start"
    /\ steps_to_run' = SelectSteps(steps)
    /\ GoesOn("loop", {})
    /\ UNCHANGED <<steps, ran, script, index_file, table_file, table_columns,
                   input_file, models_loaded, chat, turns, interrupted_at,
                   stdin, user_input, textVars, insightVars, logVars, webVars>>

\* run_full_pipeline: one turn of the loop, success = step_func() and the
\* return on failure; an exception leaves main with a traceback
RunStep ==
    /\ script = "run_pipeline" /\ spc = "loop"
    /\ steps_to_run # <<>>
    /\ \E skip_chatbot \in BOOLEAN :
       \E o \in StepResults(Head(steps_to_run), input_file, skip_chatbot) :
           /\ ran' = Append(ran, [name |-> Head(steps_to_run),
                                  result |-> o.result])
           /\ IF o.result = "success" THEN GoesOn("loop", o.messages)
              ELSE IF o.result = "failure"
              THEN Ends(ExitStatus(FALSE), "",
                        o.messages \cup {PipelineMessages.stopped})
              ELSE Ends(IF o.result = "KeyboardInterrupt" THEN "130" ELSE "1",
                        o.result, o.messages)
    /\ steps_to_run' = Tail(steps_to_run)
    /\ UNCHANGED <<steps, script, index_file, table_file, table_columns,
                   input_file, models_loaded, chat, turns, interrupted_at,
                   stdin, user_input, textVars, insightVars, logVars, webVars>>

\* run_full_pipeline: the loop is over: PIPELINE COMPLETE, return True
PipelineComplete ==
    /\ script = "run_pipeline" /\ spc = "loop"
    /\ steps_to_run = <<>>
    /\ Ends(ExitStatus(TRUE), "", {PipelineMessages.complete})
    /\ UNCHANGED <<pipelineVars, script, index_file, table_file, table_columns,
                   input_file, models_loaded, chat, turns, interrupted_at,
                   stdin, user_input, textVars, insightVars, logVars, webVars>>

PipelineNext == SelectStepsToRun \/ RunStep \/ PipelineComplete

SpecPipeline == PipelineInit /\ [][PipelineNext]_vars

---------------------------------------------------------------------------
(* Properties of the context assembly.                                     *)

\* the retrieved ids that are rows of the table
InTable(idx) == idx >= 0 /\ idx < Len(df.rows)

\* the cleaned text of row idx under main's column priority
CleanedRow(idx) == RowText(df, idx, AvailableColumns(df))

\* row idx passes the per-row filter of the assembly
Passes(idx) ==
    /\ InTable(idx)
    /\ LET text == CleanedRow(idx)
       IN  /\ text # <<>>
           /\ \E j \in 1..Len(text) : IsAlpha(text[j])
           /\ AlphaCount(text) >= args.min_context_chars

\* the passing rows of ids, in the order of ids
RECURSIVE PassingRows(_)
PassingRows(ids) ==
    IF ids = <<>> THEN <<>>
    ELSE (IF Passes(Head(ids)) THEN <<Head(ids)>> ELSE <<>>)
             \o PassingRows(Tail(ids))

\* the cleaned texts of rows ids, a single space between two of them
RECURSIVE JoinedRows(_)
JoinedRows(ids) ==
    IF ids = <<>> THEN <<>>
    ELSE IF Len(ids) = 1 THEN CleanedRow(ids[1])
    ELSE CleanedRow(Head(ids)) \o <<" ">> \o JoinedRows(Tail(ids))

\* len(text.strip()), counted from the two ends
TrimmedLength(text) ==
    LET leading == Cardinality({j \in 1..Len(text) :
                       \A m \in 1..j : IsSpace(text[m])})
        trailing == Cardinality({j \in 1..Len(text) :
                        \A m \in j..Len(text) : IsSpace(text[m])})
    IN  IF leading = Len(text) THEN 0 ELSE Len(text) - leading - trailing

\* C6: whenever no retrieved record passes the filter, whatever
\* --min-context-length was given, the context handed to build_prompt is the
\* fixed fallback sentence, never the empty string.
C6_ContextNeverEmpty ==
    (pc = "ready" /\ PassingRows(indices) = <<>>)
        => (context = FallbackSentence /\ context # <<>>)

\* C7: fallback_context returns the fallback sentence exactly when the trimmed
\* context is shorter than min_length, and its input, untrimmed, otherwise.
C7_FallbackExactlyWhenShort ==
    [][(pc = "built" /\ pc' = "ready")
          => context' = IF TrimmedLength(context) < args.min_context_length
                        THEN FallbackSentence
                        ELSE context]_vars

\* a context exactly min_length long was kept
C7_Witness ==
    /\ pc = "ready"
    /\ args.min_context_length > 0
    /\ Len(context) = args.min_context_length
    /\ context = JoinedRows(valid_indices)

\* every retrieved row's selected text holds no letter, or no row is retrieved
OnlyNumericCandidates ==
    \A n \in 1..Len(indices) :
        InTable(indices[n]) =>
            LET text == SelectText(df, Iloc(df, indices[n]), AvailableColumns(df))
            IN  \A j \in 1..Len(text) : ~IsAlpha(text[j])

\* C8: when every retrieved candidate's text is digits, punctuation,
\* underscores or whitespace only, or no candidate is retrieved, the assembly
\* gives the fallback sentence and no contributing index.
C8_NumericOnlyGivesFallback ==
    (pc = "ready" /\ OnlyNumericCandidates)
        => (context = FallbackSentence /\ valid_indices = <<>>)

\* C9: every contributing row's cleaned text holds at least min_alpha_chars
\* ASCII letters, and no retrieved row with fewer letters contributes.
C9_ContributorsHaveEnoughLetters ==
    pc \in {"built", "ready"} =>
        /\ \A n \in 1..Len(valid_indices) :
               /\ InTable(valid_indices[n])
               /\ AlphaCount(CleanedRow(valid_indices[n])) >= args.min_context_chars
        /\ \A n \in 1..Len(indices) :
               (/\ InTable(indices[n])
                /\ AlphaCount(CleanedRow(indices[n])) < args.min_context_chars)
                   => \A m \in 1..Len(valid_indices) :
                          valid_indices[m] # indices[n]

\* a non-empty row of 5 letters was retrieved under min_alpha_chars = 10 and
\* does not contribute
C9_Witness ==
    /\ pc = "built"
    /\ args.min_context_chars = DefaultMinContextChars
    /\ \E n \in 1..Len(indices) :
           /\ InTable(indices[n])
           /\ CleanedRow(indices[n]) # <<>>
           /\ AlphaCount(CleanedRow(indices[n])) = 5
           /\ \A m \in 1..Len(valid_indices) : valid_indices[m] # indices[n]

\* C10 as stated: under the default thresholds, when some retrieved rows pass
\* the filter, the context main holds is the passing rows' cleaned texts joined
\* by single spaces, and the contributing indices are those rows.
C10_ContextIsPassingRows ==
    (/\ pc = "ready"
     /\ args.min_context_chars = DefaultMinContextChars
     /\ args.min_context_length = DefaultMinContextLength
     /\ PassingRows(indices) # <<>>)
        => /\ valid_indices = PassingRows(indices)
           /\ context = JoinedRows(PassingRows(indices))

\* C10 amended: build_context returns the passing rows' cleaned texts joined by
\* single spaces in retrieval order, with exactly those rows as contributing
\* indices; main then keeps that context only when its trimmed length reaches
\* min_context_length and holds the fallback sentence otherwise, the indices
\* unchanged.
C10_ContextIsPassingRowsOrFallback ==
    LET passing == PassingRows(indices)
        joined == JoinedRows(passing)
    IN  /\ pc = "built" => (valid_indices = passing /\ context = joined)
        /\ pc = "ready" =>
               /\ valid_indices = passing
               /\ context = IF TrimmedLength(joined) >= args.min_context_length
                            THEN joined ELSE FallbackSentence

\* the example of the claim on rows 0 and 1: the camera text passes, the row
\* whose cell reads "N/A" does not, and under the defaults main holds the
\* fallback sentence
C10_Witness ==
    /\ pc = "ready"
    /\ args.min_context_chars = DefaultMinContextChars
    /\ args.min_context_length = DefaultMinContextLength
    /\ indices = <<0, 1>>
    /\ reference_csv.columns = {"Cleaned_Text"}
    /\ Len(reference_csv.rows) = 2
    /\ CleanedRow(0) = T_camera
    /\ reference_csv.rows[2]["Cleaned_Text"] = T_na
    /\ valid_indices = <<0>>
    /\ context = FallbackSentence

\* a value that is neither null nor whitespace-only
HasText(value) ==
    value.kind = "str" /\ \E j \in 1..Len(value.str) : ~IsSpace(value.str[j])

\* the places in the priority order whose field table row idx holds with text
FieldsWithText(idx) ==
    {p \in 1..Len(ColumnPriority) :
        /\ ColumnPriority[p] \in df.columns
        /\ HasText(df.rows[idx + 1][ColumnPriority[p]])}

\* the text of the first field in the priority order that holds a text
FirstFieldText(idx) ==
    LET p == CHOOSE p \in FieldsWithText(idx) :
                 \A q \in FieldsWithText(idx) : p <= q
    IN  df.rows[idx + 1][ColumnPriority[p]].str

\* the retrieved rows that hold a text whose cleaning passes the filter
RECURSIVE RowsWithPassingText(_)
RowsWithPassingText(ids) ==
    IF ids = <<>> THEN <<>>
    ELSE LET idx == Head(ids)
             keep == /\ InTable(idx)
                     /\ FieldsWithText(idx) # {}
                     /\ LET text == _clean_text(FirstFieldText(idx))
                        IN  /\ \E j \in 1..Len(text) : IsAlpha(text[j])
                            /\ AlphaCount(text) >= args.min_context_chars
         IN  (IF keep THEN <<idx>> ELSE <<>>) \o RowsWithPassingText(Tail(ids))

\* the cleaned first-field texts of rows ids, a space between two of them
RECURSIVE JoinedFirstFields(_)
JoinedFirstFields(ids) ==
    IF ids = <<>> THEN <<>>
    ELSE IF Len(ids) = 1 THEN _clean_text(FirstFieldText(ids[1]))
    ELSE _clean_text(FirstFieldText(Head(ids))) \o <<" ">>
             \o JoinedFirstFields(Tail(ids))

\* C12: for each retrieved row build_context takes the first field in the
\* order Rewritten_Text, Cleaned_Text, text whose value is non-null and not
\* whitespace-only; a row without such a field (or column) is skipped and the
\* rows after it are still processed.
C12_FirstFieldWithTextOrSkip ==
    pc = "built" =>
        /\ valid_indices = RowsWithPassingText(indices)
        /\ context = JoinedFirstFields(valid_indices)
        /\ \A n \in 1..Len(valid_indices) :
               FieldsWithText(valid_indices[n]) # {}

\* a row without any text is skipped and the next row, whose text is in its
\* third field, contributes
C12_Witness ==
    /\ pc = "built"
    /\ Len(indices) = 2
    /\ InTable(indices[1]) /\ FieldsWithText(indices[1]) = {}
    /\ InTable(indices[2]) /\ FieldsWithText(indices[2]) = {3}
    /\ valid_indices = <<indices[2]>>
    /\ context = T_camera

C14_HeaderThenRowsInCallOrder ==
    (\A p \in Procs : lpc[p] = "idle") =>
        /\ report.exists <=> calls # <<>>
        /\ calls # <<>> =>
               /\ Len(report.rows) = 1 + Len(calls)
               /\ report.rows[1] = Header
               /\ \A n \in 1..Len(calls) :
                      /\ report.rows[n + 1].query = calls[n][1]
                      /\ report.rows[n + 1].insight = calls[n][2]
                      /\ report.rows[n + 1] # Header

\* two calls with different arguments have returned
C14_Witness ==
    /\ \A p \in Procs : lpc[p] = "idle"
    /\ Len(calls) = 2
    /\ calls[1] # calls[2]
    /\ Len(report.rows) = 3

\* C15: the log is append-only: a row once in the log stays in it unchanged
\* in every later state, also when two save_report calls on the same absent
\* path interleave their exists-check, header write and row append.
C15_LogIsAppendOnly ==
    [][/\ report.exists => report'.exists
       /\ Len(report'.rows) >= Len(report.rows)
       /\ \A n \in 1..Len(report.rows) : report'.rows[n] = report.rows[n]]_vars

---------------------------------------------------------------------------
(* Properties of the entry points.                                         *)

\* the entry points that need the index or the reference file, and
\* run_pipeline, whose step 1 needs the input CSV
RequiresFiles == {"step4_generate_insights", "chatbot", "web_app", "run_pipeline"}

MissingRequiredFile ==
    IF script = "run_pipeline" THEN ~input_file
    ELSE index_file = "absent" \/ table_file = "absent"

\* C16: in every entry point that needs the index or the reference file, a
\* missing required file ends the process with a message naming the
\* corrective step and a non-zero exit status; none ends with status 0.
C16_MissingFileExitsNonZero ==
    (script \in RequiresFiles /\ MissingRequiredFile /\ spc = "ended") =>
        /\ exit_status # "0"
        /\ \E m \in printed : m.corrective

\* the ValueError of an emptiness check ended the process
EmptinessFailure ==
    /\ uncaught = "ValueError"
    /\ printed \cap {Step4Messages.index_empty, Step4Messages.reference_empty,
                     RagGenerateMessages.index_empty} # {}

\* C17: an empty index or reference table is reported as a fatal value error
\* before any model is loaded: no model was loaded when the emptiness check
\* fails.
C17_EmptinessBeforeModels ==
    EmptinessFailure => ~models_loaded

\* the errors about a column the table lacks
MissingColumnErrors == {m \in printed : m.column # {}}

\* C18: when a loaded table lacks an expected column, the operation fails
\* fatally with an error naming the missing column and the upstream step
\* that should have produced it.
C18_MissingColumnNamesStep ==
    MissingColumnErrors # {} =>
        /\ spc = "ended" /\ exit_status # "0"
        /\ \E m \in MissingColumnErrors : m.step # ""

\* C19: in the chatbot's loop an exception raised while handling a query is
\* caught and reported, the chatbot object is unchanged and the loop returns
\* to the prompt; only an exit command or an interruption ends the session.
C19_FailingQueryKeepsSession ==
    [][script = "chatbot" =>
          /\ spc \in {"chat_prompt", "retrieve", "display", "generate", "caught"}
                 => chat' = chat
          /\ spc = "caught" =>
                 /\ spc' = "chat_prompt"
                 /\ {ChatbotMessages.error, ChatbotMessages.try_again} \subseteq printed'
                 /\ exit_status' = "running"
          /\ (spc \in {"retrieve", "display", "generate"} /\ spc' = "ended") =>
                 interrupted_at' = spc
          /\ (chat # NoChatbot /\ spc' = "ended") =>
                 /\ uncaught' = ""
                 /\ printed' \cap {ChatbotMessages.goodbye, ChatbotMessages.interrupted_goodbye} # {}]_vars

\* after a query that failed and was reported, the next query is handled by
\* the same chatbot
C19_Witness ==
    /\ script = "chatbot"
    /\ spc = "retrieve"
    /\ ChatbotMessages.error \in printed
    /\ chat.models /\ chat.top_k = ChatTopK
    /\ exit_status = "running"

\* the places of an interactive session the claim names
InteractivePlaces ==
    {"chat_prompt", "retrieve", "display", "generate", "chatbot_running",
     "step4_prompt"}

\* C20: Ctrl-C at the prompt or during retrieval/generation gives a shutdown
\* message and a clean exit without an uncaught error: in chatbot.chat, in the
\* chatbot launched from run_pipeline, and at the query prompt of
\* step4_generate_insights.
C20_InterruptExitsCleanly ==
    interrupted_at \in InteractivePlaces =>
        /\ uncaught = ""
        /\ exit_status = "0"
        /\ printed \cap {ChatbotMessages.interrupted_goodbye, PipelineMessages.interrupted} # {}


\* the words that end the chat, and a text that is one of them whatever its
\* letter case
ExitWords ==
    {<<"q","u","i","t">>, <<"e","x","i","t">>, <<"q">>, <<"b","y","e">>}
NamesExitWord(text) ==
    \E w \in ExitWords :
        /\ Len(w) = Len(text)
        /\ \A j \in 1..Len(w) : LowerChar(text[j]) = w[j]

\* C27: the chat loop ends only on an exit word (the line stripped, letter
\* case ignored) or on a KeyboardInterrupt, and an exit word always ends it;
\* an empty line leads back to the prompt with nothing retrieved, generated
\* or printed; end-of-input at the prompt is caught like any failure of a
\* query, and once the input stream is exhausted the loop only alternates
\* between the prompt and the error report, never ending unless interrupted.
C27_ChatLoopEndsOnlyOnCommand ==
    [][(script = "chatbot" /\ chat # NoChatbot /\ spc # "ended") =>
          /\ spc' = "ended" =>
                 \/ /\ turns' = turns + 1
                    /\ NamesExitWord(user_input')
                    /\ ChatbotMessages.goodbye \in printed'
                 \/ /\ interrupted_at' = spc
                    /\ ChatbotMessages.interrupted_goodbye \in printed'
          /\ (turns' = turns + 1 /\ NamesExitWord(user_input')) =>
                 spc' = "ended" /\ exit_status' = "0"
          /\ (turns' = turns + 1 /\ user_input' = <<>>) =>
                 spc' = "chat_prompt" /\ printed' = printed
          /\ (spc = "chat_prompt" /\ turns' = turns /\ interrupted_at' = "") =>
                 spc' = "caught"
          /\ (stdin = "exhausted" /\ interrupted_at' = "") =>
                 /\ stdin' = "exhausted"
                 /\ spc' \in {"chat_prompt", "caught"} /\ spc' # spc
                 /\ exit_status' = "running"]_vars

\* the prompt is reached again after the input stream was exhausted and the
\* EOFError was reported
C27_Witness ==
    /\ script = "chatbot"
    /\ stdin = "exhausted"
    /\ spc = "chat_prompt"
    /\ {ChatbotMessages.error, ChatbotMessages.try_again} \subseteq printed
    /\ exit_status = "running"


\* C24: the snapshot holds exactly the records whose text is in the context
\* given to the generative model: when that context is the fallback
\* sentence, no record is exported.
C24_SnapshotMatchesContext ==
    (pc = "answered" /\ context = FallbackSentence) => ~snapshot.exists


\* C26: when the index holds fewer vectors than top_k, retrieve_similar_tickets
\* (web_app's and JiraChatbot's) returns tickets only for ids stored in the
\* index, never one for a padded -1, and at most as many as stored vectors.
C26_NoTicketForPadding ==
    (pc \in {"web_app returned", "chatbot returned"} /\ ntotal < args.top_k)
        => /\ \A n \in 1..Len(tickets) : tickets[n].idx \in 0..(ntotal - 1)
           /\ Len(tickets) <= ntotal


\* C21: the globals of web_app are assigned by load_models at startup only:
\* under any interleaving of concurrent requests no handler changes a global
\* or the contents of the reference tables.
C21_HandlersLeaveGlobals ==
    [][globals' # globals => (script = "web_app" /\ spc = "start")]_vars

\* a search is between retrieval and generation in one thread while the
\* other thread was handed a request, after load_models loaded everything
C21_Witness ==
    /\ globals.reference_df.kind = "DataFrame"
    /\ globals.original_df.kind = "DataFrame"
    /\ requests["t1"].at = "retrieved"
    /\ requests["t2"].route = "/api/categories"

\* whether encoder, tokenizer, model, index and reference table are loaded
AllLoaded ==
    /\ globals.encoder.kind = "SentenceTransformer"
    /\ globals.tokenizer.kind = "AutoTokenizer"
    /\ globals.model.kind = "AutoModelForSeq2SeqLM"
    /\ globals.index.kind = "Index"
    /\ globals.reference_df.kind = "DataFrame"

\* C22: GET /health always answers {status: "ok", models_loaded: b}, never
\* an error, with b true exactly when all five are loaded (false before
\* load_models has run, when index is the route function).
C22_HealthAlwaysOk ==
    \A n \in 1..Len(responses) :
        responses[n].route = "/api/health" =>
            /\ responses[n].code = 200
            /\ responses[n].body = [status |-> "ok", models_loaded |-> AllLoaded]


\* the place of a step in the fixed order
StepOrder(name) == CHOOSE n \in 1..Len(AllSteps) : AllSteps[n] = name

\* C23: with --steps given, only steps named in the list run, in the fixed
\* order inspect, clean, index, insights, chatbot whatever the order of the
\* list, and PIPELINE COMPLETE is reported only after every named step ran.
C23_OnlyNamedStepsInOrder ==
    steps # <<>> =>
        /\ \A n \in 1..Len(ran) : \E m \in 1..Len(steps) : steps[m] = ran[n].name
        /\ \A a, b \in 1..Len(ran) :
               a < b => StepOrder(ran[a].name) < StepOrder(ran[b].name)
        /\ PipelineMessages.complete \in printed =>
               \A m \in 1..Len(steps) : \E n \in 1..Len(ran) : ran[n].name = steps[m]

\* C25: a step is started only if every step before it returned success,
\* none is started after a failure, and the exit status is 0 exactly when
\* every executed step returned success.
C25_StopsAtFirstFailure ==
    /\ \A n \in 1..Len(ran) : n < Len(ran) => ran[n].result = "success"
    /\ spc = "ended" =>
           (exit_status = "0" <=> \A n \in 1..Len(ran) : ran[n].result = "success")

\* the second step failed: the pipeline ended with status 1 and the steps
\* after it were never started
C25_Witness ==
    /\ spc = "ended" /\ exit_status = "1"
    /\ Len(ran) = 2 /\ ran[2].result = "failure"
    /\ steps_to_run # <<>>

============================================================================
